---- MODULE Spec2Model ----
(***************************************************************************)
(* Portfolio accounting of the backtester (src/src/backtester.py).         *)
(*                                                                         *)
(* The portfolio of Backtester and its execute_trade method are modelled   *)
(* as a state machine: one step is one call of execute_trade on the        *)
(* portfolio built by Backtester.__init__.                                 *)
(*                                                                         *)
(* Money (cash, prices, cost bases, margin, realized gains) is a Python    *)
(* float in the source.  Here it is an exact rational <<n, d>> in lowest   *)
(* terms with d > 0, so every product, quotient and sum below is the real  *)
(* number the float expression approximates; float rounding is outside     *)
(* the model.  Share counts are Python ints and are integers here.         *)
(***************************************************************************)
EXTENDS Integers, Sequences, FiniteSets, TLC

(***************************************************************************)
(* Bounds of the model.                                                    *)
(***************************************************************************)
MaxTrades == 3      \* execute_trade calls in one behaviour

(***************************************************************************)
(* Exact rational arithmetic standing for Python's float operators.        *)
(***************************************************************************)
Abs(n) == IF n < 0 THEN -n ELSE n

RECURSIVE GCD(_, _)
GCD(a, b) == IF b = 0 THEN a ELSE GCD(b, a % b)

RNorm(n, d) ==
    LET s == IF d < 0 THEN -1 ELSE 1
        g == GCD(Abs(n), Abs(d))
    IN  <<(s * n) \div g, (s * d) \div g>>

R(n) == <<n, 1>>
Zero == R(0)
Half == <<1, 2>>

RAdd(a, b) == RNorm(a[1] * b[2] + b[1] * a[2], a[2] * b[2])
RSub(a, b) == RNorm(a[1] * b[2] - b[1] * a[2], a[2] * b[2])
RMul(a, b) == RNorm(a[1] * b[1], a[2] * b[2])
RDiv(a, b) == RNorm(a[1] * b[2], a[2] * b[1])
RLe(a, b)  == a[1] * b[2] <= b[1] * a[2]
RLt(a, b)  == a[1] * b[2] < b[1] * a[2]

\* Python's int(x) on a float: truncation toward zero.
int(x) == IF x[1] >= 0 THEN x[1] \div x[2] ELSE -((-x[1]) \div x[2])

min(a, b) == IF a <= b THEN a ELSE b

(***************************************************************************)
(* Inputs.                                                                 *)
(***************************************************************************)
tickers == <<"AAA", "BBB">>
Tickers == {tickers[i] : i \in 1..Len(tickers)}

\* "stop" stands for every action string outside buy/sell/short/cover/hold.
Actions == {"buy", "sell", "short", "cover", "hold", "stop"}

\* Requested quantities: negative, zero, fractional and whole.
Quantities == {R(-1), Zero, Half, R(1), <<3, 2>>, R(2)}

Prices == {R(1), R(2)}

InitialCapitals == {Zero, R(3)}

MarginRequirements == {Zero, Half, R(1)}

(***************************************************************************)
(* Backtester.__init__: the portfolio of a fresh backtester.               *)
(***************************************************************************)
new_position ==
    [long |-> 0, short |-> 0, long_cost_basis |-> Zero,
     short_cost_basis |-> Zero, short_margin_used |-> Zero]

new_portfolio(initial_capital, initial_margin_requirement) ==
    [cash               |-> initial_capital,
     margin_used        |-> Zero,
     margin_requirement |-> initial_margin_requirement,
     positions          |-> [t \in Tickers |-> new_position],
     realized_gains     |-> [t \in Tickers |-> [long |-> Zero, short |-> Zero]]]

(***************************************************************************)
(* Backtester.execute_trade.  Every branch yields the portfolio it leaves, *)
(* the value it returns and whether it raised (ZeroDivisionError).         *)
(***************************************************************************)
Done(pf, n) == [portfolio |-> pf, ret |-> n, raised |-> FALSE]
Raise(pf)   == [portfolio |-> pf, ret |-> 0, raised |-> TRUE]

\* Mutant: the plain average of the old basis and the new price.
weighted_cost_basis_unweighted(old_shares, old_cost_basis, new_shares, price) ==
    IF old_shares + new_shares > 0
    THEN RDiv(RAdd(old_cost_basis, price), R(2))
    ELSE old_cost_basis

\* The volume-weighted average of the open lot and the new fill.
weighted_cost_basis(old_shares, old_cost_basis, new_shares, price) ==
    LET total_shares   == old_shares + new_shares
        total_old_cost == RMul(old_cost_basis, R(old_shares))
        total_new_cost == RMul(price, R(new_shares))
    IN  IF total_shares > 0
        THEN RDiv(RAdd(total_old_cost, total_new_cost), R(total_shares))
        ELSE old_cost_basis

\* Mutant: the shares are booked and the cash is not charged.
buy_fill_uncharged(pf, ticker, quantity, current_price) ==
    LET position == pf.positions[ticker]
    IN  [pf EXCEPT
          !.positions[ticker].long_cost_basis =
              weighted_cost_basis(position.long, position.long_cost_basis,
                                  quantity, current_price),
          !.positions[ticker].long = position.long + quantity]

\* The bookkeeping of a buy that fills `quantity` (both buy branches).
buy_fill(pf, ticker, quantity, current_price) ==
    LET position == pf.positions[ticker]
        cost     == RMul(R(quantity), current_price)
    IN  [pf EXCEPT
          !.positions[ticker].long_cost_basis =
              weighted_cost_basis(position.long, position.long_cost_basis,
                                  quantity, current_price),
          !.positions[ticker].long = position.long + quantity,
          !.cash = RSub(pf.cash, cost)]

\* Mutant: the order is filled whatever the cash.
buy_unchecked(pf, ticker, quantity, current_price) ==
    Done(buy_fill(pf, ticker, quantity, current_price), quantity)

\* Mutant: an order the cash cannot pay in full is rejected.
buy_all_or_nothing(pf, ticker, quantity, current_price) ==
    IF RLe(RMul(R(quantity), current_price), pf.cash)
    THEN Done(buy_fill(pf, ticker, quantity, current_price), quantity)
    ELSE Done(pf, 0)

buy(pf, ticker, quantity, current_price) ==
    LET cost == RMul(R(quantity), current_price)
    IN  IF RLe(cost, pf.cash)
        THEN Done(buy_fill(pf, ticker, quantity, current_price), quantity)
        ELSE IF current_price = Zero
        THEN Raise(pf)
        ELSE LET max_quantity == int(RDiv(pf.cash, current_price))
             IN  IF max_quantity > 0
                 THEN Done(buy_fill(pf, ticker, max_quantity, current_price),
                           max_quantity)
                 ELSE Done(pf, 0)

\* Mutant: the request is not cut to the shares held.
sell_quantity_unclamped(quantity, long_shares) == quantity

\* A sell fills no more than the long shares held.
sell_quantity(quantity, long_shares) == min(quantity, long_shares)

\* Mutant: the cost basis survives the close of the position.
long_cost_basis_after_sell_kept(long_shares, long_cost_basis) == long_cost_basis

\* Mutant: every sell resets the cost basis.
long_cost_basis_after_sell_reset(long_shares, long_cost_basis) == Zero

\* The cost basis is reset when the long position is closed.
long_cost_basis_after_sell(long_shares, long_cost_basis) ==
    IF long_shares = 0 THEN Zero ELSE long_cost_basis

\* Mutant: the gain of a sale is booked on the short side.
sell_gain_booked_short(pf, ticker, requested, current_price) ==
    LET position == pf.positions[ticker]
        quantity == sell_quantity(requested, position.long)
        realized_gain ==
            RMul(RSub(current_price, position.long_cost_basis), R(quantity))
        long_left == position.long - quantity
    IN  IF quantity > 0
        THEN Done([pf EXCEPT
                    !.realized_gains[ticker].short =
                        RAdd(pf.realized_gains[ticker].short, realized_gain),
                    !.positions[ticker].long = long_left,
                    !.cash = RAdd(pf.cash, RMul(R(quantity), current_price)),
                    !.positions[ticker].long_cost_basis =
                        long_cost_basis_after_sell(long_left,
                                                   position.long_cost_basis)],
                  quantity)
        ELSE Done(pf, 0)

sell(pf, ticker, requested, current_price) ==
    LET position == pf.positions[ticker]
        quantity == sell_quantity(requested, position.long)
        avg_cost_per_share ==
            IF position.long > 0 THEN position.long_cost_basis ELSE Zero
        realized_gain ==
            RMul(RSub(current_price, avg_cost_per_share), R(quantity))
        long_left == position.long - quantity
    IN  IF quantity > 0
        THEN Done([pf EXCEPT
                    !.realized_gains[ticker].long =
                        RAdd(pf.realized_gains[ticker].long, realized_gain),
                    !.positions[ticker].long = long_left,
                    !.cash = RAdd(pf.cash, RMul(R(quantity), current_price)),
                    !.positions[ticker].long_cost_basis =
                        long_cost_basis_after_sell(long_left,
                                                   position.long_cost_basis)],
                  quantity)
        ELSE Done(pf, 0)

\* Mutant: the margin is pledged on the position but not added to the
\* portfolio's margin_used.
short_fill_position_only(pf, ticker, quantity, current_price) ==
    LET position        == pf.positions[ticker]
        proceeds        == RMul(current_price, R(quantity))
        margin_required == RMul(proceeds, pf.margin_requirement)
    IN  [pf EXCEPT
          !.positions[ticker].short_cost_basis =
              weighted_cost_basis(position.short, position.short_cost_basis,
                                  quantity, current_price),
          !.positions[ticker].short = position.short + quantity,
          !.positions[ticker].short_margin_used =
              RAdd(position.short_margin_used, margin_required),
          !.cash = RSub(RAdd(pf.cash, proceeds), margin_required)]

\* The bookkeeping of a short that fills `quantity` (both short branches).
short_fill(pf, ticker, quantity, current_price) ==
    LET position        == pf.positions[ticker]
        proceeds        == RMul(current_price, R(quantity))
        margin_required == RMul(proceeds, pf.margin_requirement)
    IN  [pf EXCEPT
          !.positions[ticker].short_cost_basis =
              weighted_cost_basis(position.short, position.short_cost_basis,
                                  quantity, current_price),
          !.positions[ticker].short = position.short + quantity,
          !.positions[ticker].short_margin_used =
              RAdd(position.short_margin_used, margin_required),
          !.margin_used = RAdd(pf.margin_used, margin_required),
          !.cash = RSub(RAdd(pf.cash, proceeds), margin_required)]

\* Mutant: a short whose margin the cash cannot pay in full is rejected.
short_all_or_nothing(pf, ticker, quantity, current_price) ==
    IF RLe(RMul(RMul(current_price, R(quantity)), pf.margin_requirement), pf.cash)
    THEN Done(short_fill(pf, ticker, quantity, current_price), quantity)
    ELSE Done(pf, 0)

short(pf, ticker, quantity, current_price) ==
    LET proceeds        == RMul(current_price, R(quantity))
        margin_required == RMul(proceeds, pf.margin_requirement)
        margin_ratio    == pf.margin_requirement
    IN  IF RLe(margin_required, pf.cash)
        THEN Done(short_fill(pf, ticker, quantity, current_price), quantity)
        ELSE IF RLt(Zero, margin_ratio) /\ RMul(current_price, margin_ratio) = Zero
        THEN Raise(pf)
        ELSE LET max_quantity ==
                     IF RLt(Zero, margin_ratio)
                     THEN int(RDiv(pf.cash, RMul(current_price, margin_ratio)))
                     ELSE 0
             IN  IF max_quantity > 0
                 THEN Done(short_fill(pf, ticker, max_quantity, current_price),
                           max_quantity)
                 ELSE Done(pf, 0)

\* A cover fills no more than the short shares held.
cover_quantity(quantity, short_shares) == min(quantity, short_shares)

\* Mutant: any cover releases the whole margin of the position.
margin_to_release_whole(quantity, short_shares, short_margin_used) ==
    short_margin_used

\* The share of the pledged margin that a cover releases.
margin_to_release(quantity, short_shares, short_margin_used) ==
    LET portion_covered ==
            IF short_shares > 0 THEN RDiv(R(quantity), R(short_shares)) ELSE R(1)
    IN  RMul(portion_covered, short_margin_used)

cover(pf, ticker, requested, current_price) ==
    LET position   == pf.positions[ticker]
        quantity   == cover_quantity(requested, position.short)
        cover_cost == RMul(R(quantity), current_price)
        avg_short_price ==
            IF position.short > 0 THEN position.short_cost_basis ELSE Zero
        realized_gain ==
            RMul(RSub(avg_short_price, current_price), R(quantity))
        released == margin_to_release(quantity, position.short,
                                      position.short_margin_used)
        short_left == position.short - quantity
    IN  IF quantity > 0
        THEN Done([pf EXCEPT
                    !.realized_gains[ticker].short =
                        RAdd(pf.realized_gains[ticker].short, realized_gain),
                    !.positions[ticker].short = short_left,
                    !.positions[ticker].short_margin_used =
                        IF short_left = 0 THEN Zero
                        ELSE RSub(position.short_margin_used, released),
                    !.margin_used = RSub(pf.margin_used, released),
                    !.cash = RSub(RAdd(pf.cash, released), cover_cost),
                    !.positions[ticker].short_cost_basis =
                        IF short_left = 0 THEN Zero
                        ELSE position.short_cost_basis],
                  quantity)
        ELSE Done(pf, 0)

\* Mutant: the guard is missing.
no_quantity_unchecked(quantity) == FALSE

\* The guard of execute_trade: a non-positive request trades nothing.
no_quantity(quantity) == RLe(quantity, Zero)

\* Mutant: an action that is none of the five raises.
execute_trade_strict(pf, ticker, action, quantity, current_price) ==
    IF no_quantity(quantity)
    THEN Done(pf, 0)
    ELSE CASE action = "buy"   -> buy(pf, ticker, int(quantity), current_price)
           [] action = "sell"  -> sell(pf, ticker, int(quantity), current_price)
           [] action = "short" -> short(pf, ticker, int(quantity), current_price)
           [] action = "cover" -> cover(pf, ticker, int(quantity), current_price)
           [] action = "hold"  -> Done(pf, 0)
           [] OTHER            -> Raise(pf)

execute_trade(pf, ticker, action, quantity, current_price) ==
    IF no_quantity(quantity)
    THEN Done(pf, 0)
    ELSE CASE action = "buy"   -> buy(pf, ticker, int(quantity), current_price)
           [] action = "sell"  -> sell(pf, ticker, int(quantity), current_price)
           [] action = "short" -> short(pf, ticker, int(quantity), current_price)
           [] action = "cover" -> cover(pf, ticker, int(quantity), current_price)
           [] OTHER            -> Done(pf, 0)

(***************************************************************************)
(* calculate_portfolio_value.  current_prices is a dict: a function from   *)
(* the tickers it has a key for to their prices.  The loop visits the      *)
(* tickers in order and looks every one of them up, so a ticker without a  *)
(* key raises KeyError.                                                    *)
(***************************************************************************)
PriceMaps == UNION {[D -> Prices] : D \in SUBSET Tickers}

ticker_value_long_only(position, price, total_value) ==
    RAdd(total_value, RMul(R(position.long), price))

\* One pass of the loop body: total_value after this ticker.
ticker_value(position, price, total_value) ==
    LET with_long == RAdd(total_value, RMul(R(position.long), price))
    IN  IF position.short > 0
        THEN RSub(with_long, RMul(R(position.short), price))
        ELSE with_long

RECURSIVE value_from(_, _, _, _)
value_from(pf, current_prices, i, total_value) ==
    IF i > Len(tickers) THEN [value |-> total_value, raised |-> FALSE]
    ELSE IF tickers[i] \notin DOMAIN current_prices
         THEN [value |-> total_value, raised |-> TRUE]
         ELSE value_from(pf, current_prices, i + 1,
                         ticker_value(pf.positions[tickers[i]],
                                      current_prices[tickers[i]], total_value))

calculate_portfolio_value(pf, current_prices) ==
    value_from(pf, current_prices, 1, pf.cash)

(***************************************************************************)
(* run_backtest.  The business days of the range are numbered 1, 2, ...;   *)
(* date 0 is the calendar day before the first of them.  A valuation       *)
(* record keeps the keys "Date" and "Portfolio Value".                     *)
(***************************************************************************)
MaxDays == 3

\* What the agent can decide for one ticker, and the decisions mappings it
\* can return: a ticker may have no entry.
TickerDecisions ==
    {[action |-> "hold", quantity |-> Zero]} \cup
    {[action |-> a, quantity |-> R(1)] : a \in {"buy", "sell", "short", "cover"}}

\* The decisions mapping with action a for the first ticker and b for the
\* second; "none" for a ticker without an entry.
decisions_of(a, b) ==
    LET chosen == [t \in Tickers |-> IF t = tickers[1] THEN a ELSE b]
    IN  [t \in {u \in Tickers : chosen[u] # "none"} |->
            CHOOSE d \in TickerDecisions : d.action = chosen[t]]

\* Entries that lack a key the driver reads, or carry keys it does not
\* read.
no_action_entry == [quantity |-> R(1), confidence |-> 50]
no_quantity_entry == [action |-> "buy", confidence |-> 50]

incomplete_decisions ==
    [t \in Tickers |->
        IF t = tickers[1] THEN no_action_entry ELSE no_quantity_entry]

AgentDecisions ==
    {decisions_of("none", "none"), decisions_of("buy", "buy"),
     decisions_of("short", "buy"), decisions_of("sell", "none"),
     decisions_of("cover", "hold"), decisions_of("hold", "sell"),
     incomplete_decisions}

\* The ways the agent call can fail: it raises, or the response could not
\* be parsed and "decisions" is None.
AgentFailures == {"raises", "no_decisions"}

\* The ways a price can be unavailable.
PriceFailures == {"empty", "exception"}

hold_decision == [action |-> "hold", quantity |-> Zero]

\* The execution loop: one execute_trade per ticker, in the order of
\* tickers, from ticker number i on.
\* decisions.get(ticker, default)
decision_for(decisions, ticker) ==
    IF ticker \in DOMAIN decisions THEN decisions[ticker] ELSE hold_decision

\* Mutant: the quantity of an entry without one is 1.
decision_quantity_one(decision) ==
    IF "quantity" \in DOMAIN decision THEN decision.quantity ELSE R(1)

\* decision.get("action", "hold"), decision.get("quantity", 0)
decision_action(decision) ==
    IF "action" \in DOMAIN decision THEN decision.action ELSE "hold"

decision_quantity(decision) ==
    IF "quantity" \in DOMAIN decision THEN decision.quantity ELSE Zero

\* The arguments of one execute_trade call of the execution loop.
trade_call(decisions, current_prices, ticker) ==
    [ticker |-> ticker,
     action |-> decision_action(decision_for(decisions, ticker)),
     quantity |-> decision_quantity(decision_for(decisions, ticker)),
     price |-> current_prices[ticker]]

RECURSIVE execute_decisions_reversed(_, _, _, _)
execute_decisions_reversed(pf, decisions, current_prices, i) ==
    IF i > Len(tickers) THEN [portfolio |-> pf, raised |-> FALSE, calls |-> <<>>]
    ELSE LET c == trade_call(decisions, current_prices,
                             tickers[Len(tickers) + 1 - i])
             r == execute_trade(pf, c.ticker, c.action, c.quantity, c.price)
             rest == execute_decisions_reversed(r.portfolio, decisions,
                                                current_prices, i + 1)
         IN  IF r.raised
             THEN [portfolio |-> r.portfolio, raised |-> TRUE, calls |-> <<c>>]
             ELSE [rest EXCEPT !.calls = <<c>> \o @]

\* calls lists the execute_trade calls made, in the order they were made.
RECURSIVE execute_decisions(_, _, _, _)
execute_decisions(pf, decisions, current_prices, i) ==
    IF i > Len(tickers) THEN [portfolio |-> pf, raised |-> FALSE, calls |-> <<>>]
    ELSE LET c == trade_call(decisions, current_prices, tickers[i])
             r == execute_trade(pf, c.ticker, c.action, c.quantity, c.price)
             rest == execute_decisions(r.portfolio, decisions,
                                       current_prices, i + 1)
         IN  IF r.raised
             THEN [portfolio |-> r.portfolio, raised |-> TRUE, calls |-> <<c>>]
             ELSE [rest EXCEPT !.calls = <<c>> \o @]

valuation_record(date, value) == [Date |-> date, Portfolio_Value |-> value]

\* The seed of the valuation series.
seed_values(dates, start_is_business_day, initial_capital) ==
    IF Len(dates) > 0
    THEN <<valuation_record(IF start_is_business_day
                            THEN dates[1] ELSE dates[1] - 1,
                            initial_capital)>>
    ELSE <<>>

\* The valuation series after a day without prices.
carried_forward(portfolio_values, current_date, initial_capital) ==
    IF portfolio_values # <<>>
       /\ portfolio_values[Len(portfolio_values)].Date # current_date
    THEN Append(portfolio_values,
                valuation_record(current_date,
                    portfolio_values[Len(portfolio_values)].Portfolio_Value))
    ELSE IF portfolio_values = <<>>
    THEN Append(portfolio_values, valuation_record(current_date, initial_capital))
    ELSE portfolio_values

(***************************************************************************)
(* _update_performance_metrics.  pandas and numpy floats may be NaN or     *)
(* infinite: such a float is a record [kind, value] with kind "num",       *)
(* "nan", "inf" or "neg_inf"; kind "none" stands for Python's None.        *)
(***************************************************************************)
Num(x) == [kind |-> "num", value |-> x]
NaN    == [kind |-> "nan", value |-> Zero]
Inf    == [kind |-> "inf", value |-> Zero]
NegInf == [kind |-> "neg_inf", value |-> Zero]
None   == [kind |-> "none", value |-> Zero]

\* a / b on numpy floats: a zero divisor gives NaN or an infinity.
float_div(a, b) ==
    IF b = Zero
    THEN IF a = Zero THEN NaN ELSE IF RLt(Zero, a) THEN Inf ELSE NegInf
    ELSE Num(RDiv(a, b))

\* One element of Series.pct_change(): cur / prev - 1.
pct_change(prev, cur) ==
    LET q == float_div(cur, prev)
    IN  IF q.kind = "num" THEN Num(RSub(q.value, R(1))) ELSE q

\* The column "Portfolio Value" of the valuation series.
Portfolio_Value(portfolio_values) ==
    [t \in 1..Len(portfolio_values) |-> portfolio_values[t].Portfolio_Value]

\* The column "Daily Return": the first row has no return.
Daily_Return(values) ==
    [t \in 1..Len(values) |->
        IF t = 1 THEN NaN ELSE pct_change(values[t - 1], values[t])]

is_number(x) == x.kind # "nan"

dropna(xs) == SelectSeq(xs, is_number)

\* 0.0434 / 252
daily_risk_free_rate == <<31, 180000>>

\* m > daily_risk_free_rate for a rational m, without large products:
\* 180000 * m[1] > 31 * m[2] exactly when m[1] exceeds the integer part of
\* 31 * m[2] / 180000.
above_risk_free(m) ==
    m[1] > (daily_risk_free_rate[1] * m[2]) \div daily_risk_free_rate[2]

\* x - daily_risk_free_rate < 0 for a return x.
negative_excess(x) ==
    \/ x.kind = "neg_inf"
    \/ x.kind = "num" /\ ~above_risk_free(x.value)
                      /\ x.value # daily_risk_free_rate

RECURSIVE SeqSum(_)
SeqSum(xs) ==
    IF xs = <<>> THEN Zero ELSE RAdd(Head(xs).value, SeqSum(Tail(xs)))

has(xs, kind) == \E i \in 1..Len(xs) : xs[i].kind = kind

\* mean(xs - daily_risk_free_rate) > 0: the mean of infinities of both
\* signs is NaN, which is not greater than 0.
mean_excess_positive(xs) ==
    IF has(xs, "neg_inf") THEN FALSE
    ELSE IF has(xs, "inf") THEN TRUE
    ELSE above_risk_free(RDiv(SeqSum(xs), R(Len(xs))))

\* Series.std() > 1e-12.  The sample standard deviation is NaN for fewer
\* than two values and when a value is infinite, and NaN > 1e-12 is false;
\* it is 0 when all values are equal.  Subtracting the risk-free rate from
\* every value does not change it.  Two distinct rationals the model can
\* hold differ by far more than 1e-12.
std_above_guard(xs) ==
    /\ Len(xs) >= 2
    /\ ~has(xs, "inf") /\ ~has(xs, "neg_inf")
    /\ \E i, j \in 1..Len(xs) : xs[i].value # xs[j].value

\* sqrt(252) * (mean(mean_of) - daily_risk_free_rate) / std(std_of), kept
\* as the two series it is computed from.
ratio(mean_of, std_of) ==
    [kind |-> "ratio", mean_of |-> mean_of, std_of |-> std_of]

no_ratio   == [kind |-> "none", mean_of |-> <<>>, std_of |-> <<>>]
zero_ratio == [kind |-> "zero", mean_of |-> <<>>, std_of |-> <<>>]
inf_ratio  == [kind |-> "inf", mean_of |-> <<>>, std_of |-> <<>>]

sharpe_ratio(clean_returns) ==
    IF std_above_guard(clean_returns)
    THEN ratio(clean_returns, clean_returns)
    ELSE zero_ratio

\* Mutant: the downside deviation is divided by without the guard.
sortino_ratio_unguarded(clean_returns) ==
    LET negative_returns == SelectSeq(clean_returns, negative_excess)
    IN  IF Len(negative_returns) > 0
        THEN ratio(clean_returns, negative_returns)
        ELSE IF mean_excess_positive(clean_returns)
             THEN inf_ratio ELSE zero_ratio

sortino_ratio(clean_returns) ==
    LET negative_returns == SelectSeq(clean_returns, negative_excess)
        no_downside == IF mean_excess_positive(clean_returns)
                       THEN inf_ratio ELSE zero_ratio
    IN  IF Len(negative_returns) > 0
        THEN IF std_above_guard(negative_returns)
             THEN IF has(clean_returns, "inf") THEN inf_ratio
                  ELSE ratio(clean_returns, negative_returns)
             ELSE no_downside
        ELSE no_downside

\* Mutant: the first value instead of the peak so far.
cummax_first(values, t) == values[1]

\* Series.cummax() at row t.
RECURSIVE cummax(_, _)
cummax(values, t) ==
    IF t = 1 THEN values[1]
    ELSE LET m == cummax(values, t - 1)
         IN  IF RLt(m, values[t]) THEN values[t] ELSE m

drawdown(values) ==
    [t \in 1..Len(values) |->
        float_div(RSub(values[t], cummax(values, t)), cummax(values, t))]

\* a <= b for two floats that are not NaN.
float_le(a, b) ==
    \/ a.kind = "neg_inf"
    \/ b.kind = "inf"
    \/ a.kind = "num" /\ b.kind = "num" /\ RLe(a.value, b.value)

\* Series.idxmin(): the first row holding the least value, NaN skipped;
\* 0 when every row is NaN.
idxmin(xs) ==
    LET rows == {t \in 1..Len(xs) : is_number(xs[t])}
        least == {t \in rows : \A u \in rows : float_le(xs[t], xs[u])}
    IN  IF least = {} THEN 0
        ELSE CHOOSE t \in least : \A u \in least : t <= u

\* x * 100
percent(x) == IF x.kind = "num" THEN Num(RMul(x.value, R(100))) ELSE x

no_date == [kind |-> "none", value |-> 0]

\* The dict run_backtest starts with.
new_performance_metrics ==
    [sharpe_ratio |-> no_ratio, sortino_ratio |-> no_ratio,
     max_drawdown |-> None, max_drawdown_date |-> no_date,
     long_short_ratio |-> None, gross_exposure |-> None,
     net_exposure |-> None]

update_performance_metrics(portfolio_values, performance_metrics) ==
    LET values == Portfolio_Value(portfolio_values)
        clean_returns == dropna(Daily_Return(values))
        row == idxmin(drawdown(values))
        min_drawdown == IF row = 0 THEN NaN ELSE drawdown(values)[row]
    IN  IF Len(clean_returns) < 2 THEN performance_metrics
        ELSE [performance_metrics EXCEPT
                !.sharpe_ratio = sharpe_ratio(clean_returns),
                !.sortino_ratio = sortino_ratio(clean_returns),
                !.max_drawdown = percent(min_drawdown),
                !.max_drawdown_date =
                    IF min_drawdown.kind = "neg_inf"
                       \/ (min_drawdown.kind = "num"
                           /\ RLt(min_drawdown.value, Zero))
                    THEN [kind |-> "date", value |-> portfolio_values[row].Date]
                    ELSE no_date]

\* Mutant: the metrics are refreshed as soon as there are two records.
enough_records_from_two(portfolio_values) == Len(portfolio_values) >= 2

\* The metrics are refreshed at the end of a traded day with more than
\* three records.
enough_records(portfolio_values) == Len(portfolio_values) > 3

(***************************************************************************)
(* State.                                                                  *)
(*   portfolio  self.portfolio                                             *)
(*   raised     whether a call of execute_trade raised                     *)
(*   trades     the number of execute_trade calls made                     *)
(* History, which the code does not keep:                                  *)
(*   long_lot, short_lot                                                   *)
(*              per ticker, the fills <<quantity, price>> that opened the  *)
(*              present long (short) position, and whether no sell (cover) *)
(*              has reduced it since it was opened                         *)
(*   call       the arguments of the observed call: one call of every      *)
(*              behaviour, chosen freely, is recorded with the portfolio   *)
(*              it found (before) and the value it returned (ret); the     *)
(*              action is "none" while no call has been recorded           *)
(*   closing    the one call that may follow the recorded call: after a    *)
(*              recorded buy (short) of a positive quantity, the sell      *)
(*              (cover) of the same quantity of the same ticker at the     *)
(*              same price; whether it was made and what it returned       *)
(*   valuation  the one recorded call of calculate_portfolio_value: the    *)
(*              prices it was given, what it returned and whether it       *)
(*              raised; it is made in place of the recorded trade, in      *)
(*              the behaviours of SpecValue                                *)
(*   initial_capital, dates, current_date, current_prices,                 *)
(*   portfolio_values                                                      *)
(*              the fields and locals of run_backtest that have these      *)
(*              names; current_date is the number of the day being         *)
(*              processed, 0 before the first                              *)
(*   pc         where run_backtest stands: "idle" before the call,         *)
(*              "loop" between two days, "prices" while the day's prices   *)
(*              are being resolved, "agent" at the call of the agent,      *)
(*              "done" after the return, "aborted" after an exception      *)
(*              has left run_backtest                                      *)
(*   day        history of the day being processed: the portfolio and the  *)
(*              length of the valuation series when it began, how it       *)
(*              ended, whether the agent and execute_trade were called,    *)
(*              the decisions the agent returned and the execute_trade     *)
(*              calls made, in order, and the metrics shown in its summary *)
(*              row                                                        *)
(*   performance_metrics                                                   *)
(*              the dict of that name in run_backtest                      *)
(*   analysis   the streak statistics analyze_performance printed, once    *)
(*              it has run                                                 *)
(*   prices_cache                                                          *)
(*              Cache._prices_cache: per key the list of cached records    *)
(*   financial_metrics_cache                                               *)
(*              Cache._financial_metrics_cache, likewise                   *)
(*   set_calls  the number of set calls made                               *)
(*   set_call   the last set call: its cache, key and list, and what the   *)
(*              getter returned for the key before it                      *)
(*   llm        the frame of a call_llm call: its arguments, the attempt   *)
(*              it is at, the outcomes of its invocations, what it         *)
(*              returned                                                   *)
(*   request    the frame of a _make_api_request call                      *)
(*   pages      the frame of a get_insider_trades or get_company_news call *)
(*   stream     the event generator of /hedge-fund/run: the events it      *)
(*              emitted, its background task, the progress handler         *)
(***************************************************************************)
VARIABLES portfolio, raised, trades, long_lot, short_lot, before, call, ret,
          closing, valuation,
          initial_capital, dates, current_date, current_prices,
          portfolio_values, pc, day,
          performance_metrics, analysis, prices_cache,
          financial_metrics_cache, set_calls, set_call,
          llm, request, pages, stream

trade_vars == <<trades, long_lot, short_lot, before, call, ret, closing,
                valuation>>

run_vars == <<dates, current_date, current_prices, portfolio_values, pc, day>>

metrics_vars == <<performance_metrics, analysis>>

cache_vars == <<prices_cache, financial_metrics_cache, set_calls, set_call>>

service_vars == <<llm, request, pages, stream>>

vars == <<portfolio, raised, initial_capital, trade_vars, run_vars,
          metrics_vars, cache_vars, service_vars>>

no_call == [ticker |-> tickers[1], action |-> "none", quantity |-> Zero,
            price |-> R(1)]

new_lot == [fills |-> <<>>, whole |-> TRUE]

not_closed == [made |-> FALSE, ret |-> 0]

no_prices == [t \in {} |-> Zero]

no_day == [ended |-> "none", portfolio |-> new_portfolio(Zero, Zero),
           records |-> 0, agent_called |-> FALSE, traded |-> FALSE,
           decisions |-> no_prices, calls |-> <<>>,
           summary |-> new_performance_metrics]

\* No call of call_llm, of _make_api_request, of a paginated getter, and
\* no event stream yet.
no_llm_call ==
    [pc |-> "idle", calls |-> 0, max_retries |-> 0, has_json_mode |-> TRUE,
     default_factory |-> FALSE, available |-> TRUE, attempt |-> 0,
     invocations |-> <<>>, raised |-> FALSE, returned |-> "none",
     decisions |-> [t \in {} |-> Zero], executed |-> FALSE,
     before |-> new_portfolio(Zero, Zero)]

no_request ==
    [pc |-> "idle", max_retries |-> 0, method |-> "GET", attempt |-> 0,
     outcomes |-> <<>>, delays |-> <<>>,
     response |-> [kind |-> "none", status_code |-> 0]]

no_pages ==
    [pc |-> "idle", getter |-> "none", provider |-> <<>>, start_date |-> 0,
     end_date |-> 0, limit |-> 0, current_end_date |-> 0,
     requested |-> <<>>, all_records |-> <<>>, cached |-> <<>>]

no_stream ==
    [pc |-> "idle", events |-> <<>>, task |-> "none", handler |-> FALSE,
     queue |-> 0, updates |-> 0]

\* Cache.__init__: empty dicts.
new_cache == [key \in {} |-> <<>>]

no_set_call == [cache |-> "none", key |-> "none", data |-> <<>>,
                key_field |-> "none",
                before |-> [present |-> FALSE, records |-> <<>>]]

not_analyzed == [done |-> FALSE, raised |-> FALSE,
                 max_consecutive_wins |-> 0, max_consecutive_losses |-> 0]

not_valued == [made |-> FALSE, prices |-> no_prices,
               value |-> Zero, raised |-> FALSE]

\* The record of the fills behind an open position, after a call.
lot_after(lot, opens, closes, action, filled, price, shares_left) ==
    IF filled = 0 THEN lot
    ELSE IF action = opens
    THEN [lot EXCEPT !.fills = Append(lot.fills, <<filled, price>>)]
    ELSE IF action = closes
    THEN IF shares_left = 0 THEN new_lot ELSE [lot EXCEPT !.whole = FALSE]
    ELSE lot

Init ==
    /\ initial_capital \in InitialCapitals
    /\ \E initial_margin_requirement \in MarginRequirements :
          portfolio = new_portfolio(initial_capital, initial_margin_requirement)
    /\ raised = FALSE
    /\ trades = 0
    /\ long_lot = [t \in Tickers |-> new_lot]
    /\ short_lot = [t \in Tickers |-> new_lot]
    /\ before = portfolio
    /\ call = no_call
    /\ ret = 0
    /\ closing = not_closed
    /\ valuation = not_valued
    /\ dates = <<>>
    /\ current_date = 0
    /\ current_prices = no_prices
    /\ portfolio_values = <<>>
    /\ pc = "idle"
    /\ day = no_day
    /\ performance_metrics = new_performance_metrics
    /\ analysis = not_analyzed
    /\ prices_cache = new_cache
    /\ financial_metrics_cache = new_cache
    /\ set_calls = 0
    /\ set_call = no_set_call
    /\ llm = no_llm_call
    /\ request = no_request
    /\ pages = no_pages
    /\ stream = no_stream

ExecuteTrade(ticker, action, quantity, current_price, observed) ==
    /\ trades < MaxTrades
    /\ ~raised
    /\ call = no_call
    /\ ~valuation.made
    /\ \E r \in {execute_trade(portfolio, ticker, action, quantity, current_price)} :
        /\ portfolio' = r.portfolio
        /\ raised' = r.raised
        /\ trades' = trades + 1
        /\ long_lot' = [long_lot EXCEPT ![ticker] =
               lot_after(@, "buy", "sell", action, r.ret, current_price,
                         r.portfolio.positions[ticker].long)]
        /\ short_lot' = [short_lot EXCEPT ![ticker] =
               lot_after(@, "short", "cover", action, r.ret, current_price,
                         r.portfolio.positions[ticker].short)]
        /\ IF observed
           THEN /\ before' = portfolio
                /\ call' = [ticker |-> ticker, action |-> action,
                            quantity |-> quantity, price |-> current_price]
                /\ ret' = r.ret
           ELSE /\ before' = r.portfolio
                /\ UNCHANGED <<call, ret>>
    /\ UNCHANGED <<closing, valuation, initial_capital, run_vars,
                   metrics_vars, cache_vars, service_vars>>

\* The call that closes what the recorded call opened.
closing_action == IF call.action = "buy" THEN "sell" ELSE "cover"

ExecuteClosingTrade ==
    /\ ~raised
    /\ call.action \in {"buy", "short"}
    /\ RLt(Zero, call.quantity)
    /\ ~closing.made
    /\ \E r \in {execute_trade(portfolio, call.ticker, closing_action,
                                call.quantity, call.price)} :
        /\ portfolio' = r.portfolio
        /\ raised' = r.raised
        /\ trades' = trades + 1
        /\ long_lot' = [long_lot EXCEPT ![call.ticker] =
               lot_after(@, "buy", "sell", closing_action, r.ret, call.price,
                         r.portfolio.positions[call.ticker].long)]
        /\ short_lot' = [short_lot EXCEPT ![call.ticker] =
               lot_after(@, "short", "cover", closing_action, r.ret, call.price,
                         r.portfolio.positions[call.ticker].short)]
        /\ closing' = [made |-> TRUE, ret |-> r.ret]
    /\ UNCHANGED <<before, call, ret, valuation, initial_capital, run_vars,
                   metrics_vars, cache_vars, service_vars>>

CalculatePortfolioValue(prices) ==
    /\ ~raised
    /\ call = no_call
    /\ ~valuation.made
    /\ \E r \in {calculate_portfolio_value(portfolio, prices)} :
        valuation' = [made |-> TRUE, prices |-> prices,
                      value |-> r.value, raised |-> r.raised]
    /\ before' = portfolio
    /\ UNCHANGED <<portfolio, raised, trades, long_lot, short_lot, call, ret,
                   closing, initial_capital, run_vars,
                   metrics_vars, cache_vars, service_vars>>

Next ==
    \/ \E ticker \in Tickers, action \in Actions, quantity \in Quantities,
          current_price \in Prices, observed \in BOOLEAN :
           ExecuteTrade(ticker, action, quantity, current_price, observed)
    \/ ExecuteClosingTrade

Spec == Init /\ [][Next]_vars

\* Trades, none of them recorded, and then one valuation.
NextValue ==
    \/ \E ticker \in Tickers, action \in Actions, quantity \in Quantities,
          current_price \in Prices :
           ExecuteTrade(ticker, action, quantity, current_price, FALSE)
    \/ \E prices \in PriceMaps : CalculatePortfolioValue(prices)

SpecValue == Init /\ [][NextValue]_vars

(***************************************************************************)
(* run_backtest, one action per stretch of code between two calls that     *)
(* leave the driver (the price provider, the agent).                       *)
(***************************************************************************)

\* The code before the loop: n business days lie in the range.
StartBacktest(n, start_is_business_day) ==
    /\ pc = "idle"
    /\ dates' = [k \in 1..n |-> k]
    /\ portfolio_values' = seed_values(dates', start_is_business_day, initial_capital)
    /\ performance_metrics' = new_performance_metrics
    /\ pc' = "loop"
    /\ UNCHANGED <<portfolio, raised, initial_capital, trade_vars, analysis,
                   cache_vars, service_vars, current_date, current_prices, day>>

\* The loop takes the next date and starts to resolve its prices.
BeginDay ==
    /\ pc = "loop"
    /\ current_date < Len(dates)
    /\ current_date' = dates[current_date + 1]
    /\ current_prices' = no_prices
    /\ pc' = "prices"
    /\ day' = [ended |-> "none", portfolio |-> portfolio,
               records |-> Len(portfolio_values),
               agent_called |-> FALSE, traded |-> FALSE,
               decisions |-> no_prices, calls |-> <<>>,
               summary |-> new_performance_metrics]
    /\ UNCHANGED <<portfolio, raised, initial_capital, trade_vars,
                   metrics_vars, cache_vars, service_vars, dates,
                   portfolio_values>>

\* The ticker whose price is resolved next.
next_ticker == tickers[Cardinality(DOMAIN current_prices) + 1]

\* get_price_data returns rows for the next ticker.
ResolvePrice(price) ==
    /\ pc = "prices"
    /\ current_prices' = [t \in DOMAIN current_prices \cup {next_ticker} |->
                             IF t = next_ticker THEN price ELSE current_prices[t]]
    /\ pc' = IF DOMAIN current_prices' = Tickers THEN "agent" ELSE "prices"
    /\ UNCHANGED <<portfolio, raised, initial_capital, trade_vars,
                   metrics_vars, cache_vars, service_vars, dates,
                   current_date, portfolio_values, day>>

\* get_price_data returns no rows for the next ticker, or raises.
PriceUnavailable(failure) ==
    /\ pc = "prices"
    /\ portfolio_values' = carried_forward(portfolio_values, current_date,
                                           initial_capital)
    /\ day' = [day EXCEPT !.ended = "skipped"]
    /\ pc' = "loop"
    /\ UNCHANGED <<portfolio, raised, initial_capital, trade_vars,
                   metrics_vars, cache_vars, service_vars, dates,
                   current_date, current_prices>>

\* The agent returns decisions; the day's trades, valuation, record and
\* summary row, and the refresh of the metrics.
CallAgent(decisions) ==
    /\ pc = "agent"
    /\ \E r \in {execute_decisions(portfolio, decisions, current_prices, 1)} :
        /\ portfolio' = r.portfolio
        /\ raised' = r.raised
        /\ IF r.raised
           THEN /\ pc' = "aborted"
                /\ UNCHANGED <<portfolio_values, performance_metrics>>
           ELSE /\ pc' = "loop"
                /\ portfolio_values' =
                       Append(portfolio_values,
                              valuation_record(current_date,
                                  calculate_portfolio_value(r.portfolio,
                                                            current_prices).value))
                /\ performance_metrics' =
                       IF enough_records(portfolio_values')
                       THEN update_performance_metrics(portfolio_values',
                                                       performance_metrics)
                       ELSE performance_metrics
        /\ day' = [day EXCEPT !.ended = "traded", !.agent_called = TRUE,
                              !.traded = TRUE, !.decisions = decisions,
                              !.calls = r.calls,
                              !.summary = performance_metrics]
    /\ UNCHANGED <<initial_capital, trade_vars, analysis, cache_vars, service_vars, dates,
                   current_date, current_prices>>

\* Mutant: the failure surfaces after a first order has been executed.
AgentFails_half_applied(failure) ==
    /\ pc = "agent"
    /\ pc' = "aborted"
    /\ portfolio' = execute_trade(portfolio, tickers[1], "buy", R(1),
                                  current_prices[tickers[1]]).portfolio
    /\ day' = [day EXCEPT !.ended = "failed", !.agent_called = TRUE]
    /\ UNCHANGED <<raised, initial_capital, trade_vars,
                   metrics_vars, cache_vars, service_vars, dates,
                   current_date, current_prices, portfolio_values>>

\* The agent raises, or returns None for "decisions": the exception leaves
\* run_backtest.
AgentFails(failure) ==
    /\ pc = "agent"
    /\ pc' = "aborted"
    /\ day' = [day EXCEPT !.ended = "failed", !.agent_called = TRUE]
    /\ UNCHANGED <<portfolio, raised, initial_capital, trade_vars,
                   metrics_vars, cache_vars, service_vars, dates,
                   current_date, current_prices, portfolio_values>>

\* The loop is over and run_backtest returns.
ReturnMetrics ==
    /\ pc = "loop"
    /\ current_date = Len(dates)
    /\ pc' = "done"
    /\ UNCHANGED <<portfolio, raised, initial_capital, trade_vars,
                   metrics_vars, cache_vars, service_vars, dates,
                   current_date, current_prices, portfolio_values, day>>

NextRun ==
    \/ \E n \in 0..MaxDays, start_is_business_day \in BOOLEAN :
           StartBacktest(n, start_is_business_day)
    \/ BeginDay
    \/ \E price \in Prices : ResolvePrice(price)
    \/ \E failure \in PriceFailures : PriceUnavailable(failure)
    \/ \E decisions \in AgentDecisions : CallAgent(decisions)
    \/ \E failure \in AgentFailures : AgentFails(failure)
    \/ ReturnMetrics

SpecRun == Init /\ [][NextRun]_vars

(***************************************************************************)
(* The metrics calculator and analyze_performance over arbitrary           *)
(* valuation series.                                                       *)
(***************************************************************************)
MaxRecords == 4

Equities == {Zero, R(1), R(2), R(4)}

\* Series of at most MaxRecords records, dated 1, 2, ...
ValuationSeries ==
    UNION {{[t \in 1..n |-> valuation_record(t, equity[t])] :
                equity \in [1..n -> Equities]} : n \in 0..MaxRecords}

\* Series.fillna(0)
fillna(xs) ==
    [t \in 1..Len(xs) |-> IF xs[t].kind = "nan" THEN Num(Zero) ELSE xs[t]]

\* x > 0 for a float x that is not NaN.
positive(x) == x.kind = "inf" \/ (x.kind = "num" /\ RLt(Zero, x.value))

\* (performance_df["Daily Return"] > 0).astype(int)
returns_binary(values) ==
    LET filled == fillna(Daily_Return(values))
    IN  [t \in 1..Len(values) |-> IF positive(filled[t]) THEN 1 ELSE 0]

\* max(len(list(g)) for k, g in groupby(bits) if k == key, default 0):
\* the length of the longest run of key.
max_consecutive(bits, key) ==
    LET runs == {r \in (1..Len(bits)) \X (1..Len(bits)) :
                    r[1] <= r[2] /\ \A t \in r[1]..r[2] : bits[t] = key}
        lengths == {r[2] - r[1] + 1 : r \in runs}
    IN  IF runs = {} THEN 0
        ELSE CHOOSE n \in lengths : \A m \in lengths : m <= n

\* drawdown.idxmin() of analyze_performance is reached with no stored
\* max_drawdown; on a drawdown series of NaN only it returns NaN or raises
\* ValueError, depending on the pandas release.
idxmin_may_raise(values, metrics) ==
    /\ metrics.max_drawdown.kind = "none"
    /\ idxmin(drawdown(values)) = 0

analyze_performance(series, metrics, analyzed, raises) ==
    IF series = <<>> THEN analyzed
    ELSE IF raises /\ idxmin_may_raise(Portfolio_Value(series), metrics)
    THEN [analyzed EXCEPT !.done = TRUE, !.raised = TRUE]
    ELSE [done |-> TRUE, raised |-> FALSE,
          max_consecutive_wins |->
              max_consecutive(returns_binary(Portfolio_Value(series)), 1),
          max_consecutive_losses |->
              max_consecutive(returns_binary(Portfolio_Value(series)), 0)]

InitMetrics ==
    /\ initial_capital \in InitialCapitals
    /\ \E initial_margin_requirement \in MarginRequirements :
          portfolio = new_portfolio(initial_capital, initial_margin_requirement)
    /\ raised = FALSE
    /\ trades = 0
    /\ long_lot = [t \in Tickers |-> new_lot]
    /\ short_lot = [t \in Tickers |-> new_lot]
    /\ before = portfolio
    /\ call = no_call
    /\ ret = 0
    /\ closing = not_closed
    /\ valuation = not_valued
    /\ dates = <<>>
    /\ current_date = 0
    /\ current_prices = no_prices
    /\ portfolio_values \in ValuationSeries
    /\ pc = "idle"
    /\ day = no_day
    /\ performance_metrics = new_performance_metrics
    /\ analysis = not_analyzed
    /\ prices_cache = new_cache
    /\ financial_metrics_cache = new_cache
    /\ set_calls = 0
    /\ set_call = no_set_call
    /\ llm = no_llm_call
    /\ request = no_request
    /\ pages = no_pages
    /\ stream = no_stream

UpdatePerformanceMetrics ==
    /\ ~analysis.done
    /\ performance_metrics' =
          update_performance_metrics(portfolio_values, performance_metrics)
    /\ UNCHANGED <<portfolio, raised, initial_capital, trade_vars, analysis,
                   cache_vars, service_vars, run_vars>>

AnalyzePerformance(raises) ==
    /\ ~analysis.done
    /\ analysis' = analyze_performance(portfolio_values, performance_metrics,
                                       analysis, raises)
    /\ UNCHANGED <<portfolio, raised, initial_capital, trade_vars,
                   performance_metrics, cache_vars, service_vars, run_vars>>

NextMetrics ==
    \/ UpdatePerformanceMetrics
    \/ \E raises \in BOOLEAN : AnalyzePerformance(raises)

SpecMetrics == InitMetrics /\ [][NextMetrics]_vars

(***************************************************************************)
(* The in-memory cache of API responses.                                   *)
(***************************************************************************)
MaxBatch == 2    \* records in the list of one set call
MaxSets == 2     \* set calls in one behaviour

CacheKeys == {"AAA_1_2", "BBB_1_2"}

MetricsKeys == {"AAA_ttm_2_10"}

\* Price records as dicts: the key field "time" and one more field.  Two
\* of them share a time.
PriceRecords ==
    {[time |-> 1, close |-> 1], [time |-> 1, close |-> 2],
     [time |-> 2, close |-> 1]}

\* Financial metrics as dicts: the key field "report_period" and one more.
FinancialMetricsRecords == [report_period : {1, 2}, market_cap : {1}]

\* The lists a set call may be handed.
Batches == UNION {[1..n -> PriceRecords] : n \in 0..MaxBatch}

MetricsBatches == UNION {[1..n -> FinancialMetricsRecords] : n \in 0..MaxBatch}

\* What dict.get returns: the cached list, or None for a key never set.
Cached(records) == [present |-> TRUE, records |-> records]
Absent == [present |-> FALSE, records |-> <<>>]

\* {item[key_field] for item in existing}
existing_keys(existing, key_field) ==
    {existing[i][key_field] : i \in 1..Len(existing)}

\* Mutant: the new records are appended without looking at their keys.
merge_data_append(existing, new_data, key_field) ==
    existing.records \o new_data

\* Mutant: the new list replaces the cached one.
merge_data_replace(existing, new_data, key_field) == new_data

\* `not existing` holds for None and for the empty list.
merge_data(existing, new_data, key_field) ==
    IF ~existing.present \/ existing.records = <<>> THEN new_data
    ELSE LET fresh(item) ==
                 item[key_field] \notin
                     existing_keys(existing.records, key_field)
         IN  existing.records \o SelectSeq(new_data, fresh)

\* dict.get(ticker)
cache_get(cache, ticker) ==
    IF ticker \in DOMAIN cache THEN Cached(cache[ticker]) ELSE Absent

\* self._<category>_cache[ticker] = self._merge_data(..., key_field)
cache_set(cache, ticker, data, key_field) ==
    [k \in DOMAIN cache \cup {ticker} |->
        IF k = ticker
        THEN merge_data(cache_get(cache, ticker), data, key_field)
        ELSE cache[k]]

set_prices(cache, ticker, data) == cache_set(cache, ticker, data, "time")

set_financial_metrics(cache, ticker, data) ==
    cache_set(cache, ticker, data, "report_period")

SetPrices(ticker, data) ==
    /\ set_calls < MaxSets
    /\ set_calls' = set_calls + 1
    /\ prices_cache' = set_prices(prices_cache, ticker, data)
    /\ set_call' = [cache |-> "prices", key |-> ticker, data |-> data,
                    key_field |-> "time",
                    before |-> cache_get(prices_cache, ticker)]
    /\ UNCHANGED <<portfolio, raised, initial_capital, trade_vars,
                   metrics_vars, run_vars, service_vars,
                   financial_metrics_cache>>

SetFinancialMetrics(ticker, data) ==
    /\ set_calls < MaxSets
    /\ set_calls' = set_calls + 1
    /\ financial_metrics_cache' =
          set_financial_metrics(financial_metrics_cache, ticker, data)
    /\ set_call' = [cache |-> "financial_metrics", key |-> ticker,
                    data |-> data, key_field |-> "report_period",
                    before |-> cache_get(financial_metrics_cache, ticker)]
    /\ UNCHANGED <<portfolio, raised, initial_capital, trade_vars,
                   metrics_vars, run_vars, service_vars, prices_cache>>

\* The cache is a module-level object of its own: one Backtester next to
\* it is enough.
InitCache ==
    /\ Init
    /\ initial_capital = Zero
    /\ portfolio.margin_requirement = Zero

NextCache ==
    \/ \E ticker \in CacheKeys, data \in Batches : SetPrices(ticker, data)
    \/ \E ticker \in MetricsKeys, data \in MetricsBatches :
           SetFinancialMetrics(ticker, data)

SpecCache == InitCache /\ [][NextCache]_vars

(***************************************************************************)
(* call_llm, as the portfolio manager calls it, and the execution of the   *)
(* decisions it returns.                                                   *)
(***************************************************************************)
MaxCalls == 2     \* call_llm calls in one behaviour

\* max_retries: int = 3
default_max_retries == 3

MaxRetriesArguments == 0..default_max_retries

\* What one llm.invoke(prompt) can do: return a usable result, raise an
\* Exception, or (without native JSON mode) return a response from which
\* no JSON can be taken, which lines 85 and 88 turn into an exception.
InvokeOutcomes(has_json_mode) ==
    IF has_json_mode THEN {"result", "raises"}
    ELSE {"result", "raises", "no_json"}

\* The decisions a usable result can hold.
LLMDecisions == {decisions_of("buy", "buy"), decisions_of("short", "sell")}

\* create_default_portfolio_output: hold, quantity 0 for every ticker.
create_default_portfolio_output ==
    [t \in Tickers |-> [action |-> "hold", quantity |-> Zero, confidence |-> 0]]

\* create_default_response(PortfolioManagerOutput): decisions is a dict
\* field, so it is {}.
create_default_response == [t \in {} |-> hold_decision]

\* Mutant: the generic default sells one share of every ticker.
default_response_sells(default_factory) ==
    IF default_factory
    THEN [returned |-> "default_factory",
          decisions |-> [t \in Tickers |-> [action |-> "sell", quantity |-> R(1)]]]
    ELSE [returned |-> "create_default_response",
          decisions |-> create_default_response]

\* default_factory() if default_factory else create_default_response(...)
default_response(default_factory) ==
    IF default_factory
    THEN [returned |-> "default_factory",
          decisions |-> create_default_portfolio_output]
    ELSE [returned |-> "create_default_response",
          decisions |-> create_default_response]

\* Mutant: the loop makes one attempt more.
last_attempt_one_more(attempt, max_retries) == attempt = max_retries

\* attempt == max_retries - 1
last_attempt(attempt, max_retries) == attempt = max_retries - 1

\* The call up to the loop: no model instance returns the default at once
\* (line 59); a loop over an empty range falls through to line 107, which
\* does not look at default_factory.
CallLLM(max_retries, has_json_mode, default_factory, available) ==
    /\ llm.pc = "idle"
    /\ llm.calls < MaxCalls
    /\ llm' =
          LET entered == [llm EXCEPT !.calls = @ + 1,
                                     !.max_retries = max_retries,
                                     !.has_json_mode = has_json_mode,
                                     !.default_factory = default_factory,
                                     !.available = available,
                                     !.attempt = 0,
                                     !.invocations = <<>>,
                                     !.raised = FALSE,
                                     !.executed = FALSE]
              d == default_response(default_factory)
          IN  IF ~available
              THEN [entered EXCEPT !.pc = "returned",
                                   !.returned = d.returned,
                                   !.decisions = d.decisions]
              ELSE IF max_retries <= 0
              THEN [entered EXCEPT !.pc = "returned",
                                   !.returned = "create_default_response",
                                   !.decisions = create_default_response]
              ELSE [entered EXCEPT !.pc = "invoking", !.returned = "none"]
    /\ UNCHANGED <<portfolio, raised, initial_capital, trade_vars, run_vars,
                   metrics_vars, cache_vars, request, pages, stream>>

\* One pass of the loop: the invocation, and the except clause when it
\* failed.
Invoke(outcome, decisions) ==
    /\ llm.pc = "invoking"
    /\ outcome \in InvokeOutcomes(llm.has_json_mode)
    /\ llm' =
          LET invoked == [llm EXCEPT !.invocations = Append(@, outcome)]
              d == default_response(llm.default_factory)
          IN  IF outcome = "result"
              THEN [invoked EXCEPT !.pc = "returned", !.returned = "result",
                                   !.decisions = decisions]
              ELSE IF last_attempt(llm.attempt, llm.max_retries)
              THEN [invoked EXCEPT !.pc = "returned",
                                   !.returned = d.returned,
                                   !.decisions = d.decisions]
              ELSE [invoked EXCEPT !.attempt = @ + 1]
    /\ UNCHANGED <<portfolio, raised, initial_capital, trade_vars, run_vars,
                   metrics_vars, cache_vars, request, pages, stream>>

\* The execution loop of the day on the decisions that call_llm returned.
ExecuteReturned(prices) ==
    /\ llm.pc = "returned"
    /\ ~raised
    /\ \E r \in {execute_decisions(portfolio, llm.decisions, prices, 1)} :
        /\ portfolio' = r.portfolio
        /\ raised' = r.raised
    /\ llm' = [llm EXCEPT !.pc = "idle", !.executed = TRUE,
                          !.before = portfolio]
    /\ UNCHANGED <<initial_capital, trade_vars, run_vars, metrics_vars,
                   cache_vars, request, pages, stream>>

InitLLM ==
    /\ Init
    /\ initial_capital = R(3)

NextLLM ==
    \/ \E max_retries \in MaxRetriesArguments,
          has_json_mode, default_factory, available \in BOOLEAN :
           CallLLM(max_retries, has_json_mode, default_factory, available)
    \/ \E outcome \in InvokeOutcomes(FALSE), decisions \in LLMDecisions :
           Invoke(outcome, decisions)
    \/ \E prices \in [Tickers -> {R(1)}] : ExecuteReturned(prices)

SpecLLM == InitLLM /\ [][NextLLM]_vars

(***************************************************************************)
(* _make_api_request.                                                      *)
(***************************************************************************)
\* max_retries: int = 3
default_request_max_retries == 3

RequestMaxRetries == -1..default_request_max_retries

Methods == {"GET", "POST"}

\* What requests.get or requests.post can do: return a response with a
\* status code, raise (a connection error), or, no timeout being passed,
\* never return.
StatusCodes == {200, 404, 429, 500}

Response(status_code) == [kind |-> "response", status_code |-> status_code]

Responses == {Response(status_code) : status_code \in StatusCodes}

RequestOutcomes ==
    Responses \cup {[kind |-> k, status_code |-> 0] :
                        k \in {"raises", "never_returns"}}

\* What the function returns when the loop has no pass.
no_response == [kind |-> "none", status_code |-> 0]

\* Mutant: the last attempt is retried as well.
rate_limited_always(status_code, attempt, max_retries) == status_code = 429

\* response.status_code == 429 and attempt < max_retries
rate_limited(status_code, attempt, max_retries) ==
    status_code = 429 /\ attempt < max_retries

\* delay = 60 + (30 * attempt)
delay(attempt) == 60 + (30 * attempt)

\* The call up to the loop; range(max_retries + 1) is empty for a negative
\* max_retries and the function falls off its end.
MakeApiRequest(max_retries, method) ==
    /\ request.pc = "idle"
    /\ request' =
          [request EXCEPT !.max_retries = max_retries,
                          !.method = method,
                          !.pc = IF max_retries + 1 <= 0 THEN "returned"
                                 ELSE "sending",
                          !.response = no_response]
    /\ UNCHANGED <<portfolio, raised, initial_capital, trade_vars, run_vars,
                   metrics_vars, cache_vars, llm, pages, stream>>

\* One pass of the loop: the request, then the sleep and the next pass, or
\* the return.  A rate-limited last pass of range(max_retries + 1) cannot
\* occur with rate_limited; the loop would end and the function return
\* None.
SendRequest(outcome) ==
    /\ request.pc = "sending"
    /\ request' =
          LET sent == [request EXCEPT !.outcomes = Append(@, outcome)]
          IN  IF outcome.kind = "raises" THEN [sent EXCEPT !.pc = "raised"]
              ELSE IF outcome.kind = "never_returns"
              THEN [sent EXCEPT !.pc = "blocked"]
              ELSE IF rate_limited(outcome.status_code, request.attempt,
                                   request.max_retries)
              THEN IF request.attempt + 1 < request.max_retries + 1
                   THEN [sent EXCEPT !.delays = Append(@, delay(request.attempt)),
                                     !.attempt = @ + 1]
                   ELSE [sent EXCEPT !.delays = Append(@, delay(request.attempt)),
                                     !.pc = "returned",
                                     !.response = no_response]
              ELSE [sent EXCEPT !.pc = "returned", !.response = outcome]
    /\ UNCHANGED <<portfolio, raised, initial_capital, trade_vars, run_vars,
                   metrics_vars, cache_vars, llm, pages, stream>>

InitRequest == Init

NextRequest ==
    \/ \E max_retries \in RequestMaxRetries, method \in Methods :
           MakeApiRequest(max_retries, method)
    \/ \E outcome \in RequestOutcomes : SendRequest(outcome)

\* The calling thread runs on: a pass that can be taken is taken.
SpecRequest ==
    /\ InitRequest
    /\ [][NextRequest]_vars
    /\ WF_vars(\E outcome \in RequestOutcomes : SendRequest(outcome))

(***************************************************************************)
(* The pagination loops of get_insider_trades and get_company_news.        *)
(* Dates are day numbers: ISO date strings compare as their days do, and   *)
(* .split("T")[0] keeps the day of a timestamp.  A record is written       *)
(* [id, date]; date is filing_date for an insider trade and date for a     *)
(* news item.                                                              *)
(***************************************************************************)
MaxPages == 3      \* page requests in one call
MaxProvided == 3   \* records the provider holds for the ticker
MaxDate == 3       \* the latest day

PageDates == 1..MaxDate

\* start_date: str | None = None
no_start_date == 0

PagedGetters == {"get_insider_trades", "get_company_news"}

\* What the provider holds for the ticker: record i is dated provider[i].
Providers == UNION {[1..n -> PageDates] : n \in 0..MaxProvided}

Limits == {1, 2}

provided(provider, i) == [id |-> i, date |-> provider[i]]

\* The provider answers a request with the newest records of the range,
\* at most limit of them, newest first: the same answer to the same
\* request.
RECURSIVE newest_first(_, _)
newest_first(provider, ids) ==
    IF ids = {} THEN <<>>
    ELSE LET i == CHOOSE j \in ids :
                    \A k \in ids : \/ provider[k] < provider[j]
                                   \/ (provider[k] = provider[j] /\ j <= k)
         IN  <<provided(provider, i)>> \o newest_first(provider, ids \ {i})

page_of(provider, lte, gte, limit) ==
    LET in_range == {i \in 1..Len(provider) :
                        /\ provider[i] <= lte
                        /\ (gte # no_start_date => provider[i] >= gte)}
        ordered == newest_first(provider, in_range)
    IN  SubSeq(ordered, 1, IF Len(ordered) < limit THEN Len(ordered) ELSE limit)

\* Mutant: the next page ends the day before the oldest record of this one.
next_end_date_day_before(records) ==
    (CHOOSE d \in {records[i].date : i \in 1..Len(records)} :
        \A i \in 1..Len(records) : d <= records[i].date) - 1

\* min(record date for record in page).split("T")[0]
next_end_date(records) ==
    CHOOSE d \in {records[i].date : i \in 1..Len(records)} :
        \A i \in 1..Len(records) : d <= records[i].date

\* The call up to the loop, on a key that is not cached.
GetPaged(getter, provider, end_date, start_date, limit) ==
    /\ pages.pc = "idle"
    /\ pages' = [pages EXCEPT !.pc = "paging",
                              !.getter = getter,
                              !.provider = provider,
                              !.start_date = start_date,
                              !.end_date = end_date,
                              !.limit = limit,
                              !.current_end_date = end_date]
    /\ UNCHANGED <<portfolio, raised, initial_capital, trade_vars, run_vars,
                   metrics_vars, cache_vars, llm, request, stream>>

\* What the function does once the loop is left: nothing is cached for an
\* empty result.
paged_return(frame, records) ==
    [frame EXCEPT !.pc = "returned",
                  !.all_records = records,
                  !.cached = records]

\* One pass of the loop: the request, the status check, the page added to
\* the result, and the three ways out of the loop.
FetchPage(status_ok) ==
    /\ pages.pc = "paging"
    /\ Len(pages.requested) < MaxPages
    /\ pages' =
          LET asked == [pages EXCEPT
                           !.requested = Append(@, pages.current_end_date)]
              records == page_of(pages.provider, pages.current_end_date,
                                 pages.start_date, pages.limit)
              all_records == pages.all_records \o records
              extended == [asked EXCEPT !.all_records = all_records]
          IN  IF ~status_ok THEN [asked EXCEPT !.pc = "raised"]
              ELSE IF records = <<>>
              THEN paged_return(asked, pages.all_records)
              ELSE IF pages.start_date = no_start_date
                      \/ Len(records) < pages.limit
              THEN paged_return(extended, all_records)
              ELSE IF next_end_date(records) <= pages.start_date
              THEN paged_return([extended EXCEPT !.current_end_date =
                                                    next_end_date(records)],
                                all_records)
              ELSE [extended EXCEPT !.current_end_date =
                                       next_end_date(records)]
    /\ UNCHANGED <<portfolio, raised, initial_capital, trade_vars, run_vars,
                   metrics_vars, cache_vars, llm, request, stream>>

InitPages ==
    /\ Init
    /\ initial_capital = Zero
    /\ portfolio.margin_requirement = Zero

NextPages ==
    \/ \E getter \in PagedGetters, provider \in Providers,
          end_date \in PageDates,
          start_date \in PageDates \cup {no_start_date}, limit \in Limits :
           GetPaged(getter, provider, end_date, start_date, limit)
    \/ \E status_ok \in BOOLEAN : FetchPage(status_ok)

SpecPages == InitPages /\ [][NextPages]_vars

(***************************************************************************)
(* event_generator of POST /hedge-fund/run.  The generator and the         *)
(* background task run_graph_async take turns; the client may stop         *)
(* reading wherever the generator is suspended.                            *)
(*   pc       "check": suspended at a yield, about to test the loop        *)
(*            condition; "waiting": in wait_for(progress_queue.get());     *)
(*            "closed": the generator returned; "failed": an exception     *)
(*            left it; "disconnected": it was closed from outside          *)
(*   task     "running", then how run_graph_async ended, or "cancelled"    *)
(*   handler  progress_handler is registered                               *)
(*   queue    the progress events in progress_queue                        *)
(*   updates  the progress updates the task has made                       *)
(***************************************************************************)
MaxUpdates == 2    \* progress updates of the task in one behaviour

\* How run_graph_async can end: with messages, with no result or no
\* messages, or by raising.
TaskOutcomes == {"returned", "empty", "raised"}

task_done(task) == task \in TaskOutcomes \cup {"cancelled"}

\* Mutant: the cleanup leaves a running task alone.
cleanup_without_cancel(frame) == [frame EXCEPT !.handler = FALSE]

\* finally: unregister the handler, cancel the task if it is not done.
cleanup(frame) ==
    [frame EXCEPT !.handler = FALSE,
                  !.task = IF task_done(@) THEN @ ELSE "cancelled"]

\* Mutant: a failure of the task is reported as an error event.
finish_reporting_failure(frame) ==
    cleanup([frame EXCEPT !.events = Append(@, IF frame.task = "returned"
                                               THEN "complete" ELSE "error"),
                          !.pc = "closed"])

\* Lines 88-109 once the loop is left: run_task.result() returns the result
\* or raises what the task raised; the error or the complete event; the
\* cleanup.
finish(frame) ==
    IF frame.task = "raised" THEN cleanup([frame EXCEPT !.pc = "failed"])
    ELSE IF frame.task = "empty"
    THEN cleanup([frame EXCEPT !.events = Append(@, "error"),
                               !.pc = "closed"])
    ELSE cleanup([frame EXCEPT !.events = Append(@, "complete"),
                               !.pc = "closed"])

\* Lines 49-75: the queue, the handler, the task, the start event.
StartStream ==
    /\ stream.pc = "idle"
    /\ stream' = [stream EXCEPT !.pc = "check",
                                !.handler = TRUE,
                                !.task = "running",
                                !.events = <<"start">>]
    /\ UNCHANGED <<portfolio, raised, initial_capital, trade_vars, run_vars,
                   metrics_vars, cache_vars, llm, request, pages>>

\* The task reports progress: the registered handler queues an event.
TaskProgress ==
    /\ stream.task = "running"
    /\ stream.updates < MaxUpdates
    /\ stream' = [stream EXCEPT !.updates = @ + 1,
                                !.queue = IF stream.handler THEN @ + 1 ELSE @]
    /\ UNCHANGED <<portfolio, raised, initial_capital, trade_vars, run_vars,
                   metrics_vars, cache_vars, llm, request, pages>>

TaskEnds(outcome) ==
    /\ stream.task = "running"
    /\ stream' = [stream EXCEPT !.task = outcome]
    /\ UNCHANGED <<portfolio, raised, initial_capital, trade_vars, run_vars,
                   metrics_vars, cache_vars, llm, request, pages>>

\* while not run_task.done(): into the wait, or out of the loop and to the
\* end of the generator.
CheckTask ==
    /\ stream.pc = "check"
    /\ stream' = IF task_done(stream.task) THEN finish(stream)
                 ELSE [stream EXCEPT !.pc = "waiting"]
    /\ UNCHANGED <<portfolio, raised, initial_capital, trade_vars, run_vars,
                   metrics_vars, cache_vars, llm, request, pages>>

\* The wait returns a queued event, which is sent.
YieldProgress ==
    /\ stream.pc = "waiting"
    /\ stream.queue > 0
    /\ stream' = [stream EXCEPT !.queue = @ - 1,
                                !.events = Append(@, "progress"),
                                !.pc = "check"]
    /\ UNCHANGED <<portfolio, raised, initial_capital, trade_vars, run_vars,
                   metrics_vars, cache_vars, llm, request, pages>>

\* asyncio.TimeoutError after one second with an empty queue.
WaitTimeout ==
    /\ stream.pc = "waiting"
    /\ stream.queue = 0
    /\ stream' = [stream EXCEPT !.pc = "check"]
    /\ UNCHANGED <<portfolio, raised, initial_capital, trade_vars, run_vars,
                   metrics_vars, cache_vars, llm, request, pages>>

\* The client goes away: the generator is closed where it is suspended and
\* only its finally clause runs.
Disconnect ==
    /\ stream.pc \in {"check", "waiting"}
    /\ stream' = cleanup([stream EXCEPT !.pc = "disconnected"])
    /\ UNCHANGED <<portfolio, raised, initial_capital, trade_vars, run_vars,
                   metrics_vars, cache_vars, llm, request, pages>>

InitStream == Init

NextStream ==
    \/ StartStream
    \/ TaskProgress
    \/ \E outcome \in TaskOutcomes : TaskEnds(outcome)
    \/ CheckTask
    \/ YieldProgress
    \/ WaitTimeout
    \/ Disconnect

SpecStream == InitStream /\ [][NextStream]_vars

(***************************************************************************)
(* Vocabulary of the claims.                                               *)
(***************************************************************************)
RECURSIVE RSum(_, _)
RSum(f, S) ==
    IF S = {} THEN Zero
    ELSE LET x == CHOOSE y \in S : TRUE IN RAdd(f[x], RSum(f, S \ {x}))

Observed == call.action # "none"

\* The observed call was `action` and asked for a positive quantity, and
\* no call has followed it.
Called(action) ==
    /\ call.action = action
    /\ RLt(Zero, call.quantity)
    /\ ~closing.made

\* The observed call was `action` for a positive quantity and the closing
\* call has followed it.
Closed(action) ==
    /\ call.action = action
    /\ closing.made

\* The requested quantity in whole shares: the largest integer not above it.
Requested == call.quantity[1] \div call.quantity[2]

Pos(pf) == pf.positions[call.ticker]

\* The traded position but for its long side, and everything else but cash.
LongFrame(pf) ==
    <<pf.margin_used, pf.margin_requirement, pf.realized_gains,
      [t \in Tickers \ {call.ticker} |-> pf.positions[t]],
      Pos(pf).short, Pos(pf).short_cost_basis, Pos(pf).short_margin_used>>

\* Sum of quantity and of quantity * price over the fills of a lot.
RECURSIVE LotShares(_)
LotShares(fills) ==
    IF fills = <<>> THEN 0 ELSE fills[1][1] + LotShares(Tail(fills))

RECURSIVE LotCost(_)
LotCost(fills) ==
    IF fills = <<>> THEN Zero
    ELSE RAdd(RMul(R(fills[1][1]), fills[1][2]), LotCost(Tail(fills)))

(***************************************************************************)
(* C1: after any sequence of execute_trade calls on a fresh portfolio      *)
(* with cash >= 0 and margin_requirement in [0, 1], cash is never          *)
(* negative.  The cover branch pays the cover cost without looking at      *)
(* cash, so this is violated.                                              *)
(***************************************************************************)
C1_CashNeverNegative == RLe(Zero, portfolio.cash)

(***************************************************************************)
(* C2: in every reachable state the portfolio's margin_used is the sum of  *)
(* the instruments' short_margin_used.                                     *)
(***************************************************************************)
C2_MarginUsedIsSum ==
    portfolio.margin_used =
        RSum([t \in Tickers |-> portfolio.positions[t].short_margin_used],
             Tickers)

\* A cover has released part of one instrument's margin while every
\* instrument still has margin pledged.
C2_Witness ==
    /\ Called("cover")
    /\ ret > 0
    /\ \A t \in Tickers : RLt(Zero, portfolio.positions[t].short_margin_used)

(***************************************************************************)
(* C3: for every instrument, long_cost_basis is 0 whenever long shares     *)
(* are 0, and short_cost_basis and short_margin_used are 0 whenever short  *)
(* shares are 0.                                                           *)
(***************************************************************************)
C3_FlatMeansZeroBasis ==
    \A t \in Tickers :
        LET position == portfolio.positions[t]
        IN  /\ position.long = 0 => position.long_cost_basis = Zero
            /\ position.short = 0 =>
                  /\ position.short_cost_basis = Zero
                  /\ position.short_margin_used = Zero

\* A sell has just closed a long position that had a cost basis.
C3_Witness ==
    /\ Called("sell")
    /\ ret > 0
    /\ Pos(before).long_cost_basis # Zero
    /\ Pos(portfolio).long = 0

(***************************************************************************)
(* C4 as claimed: a buy that fills f > 0 at p has f*p <= cash before the   *)
(* trade, and a short that fills f > 0 has f*p + f*p*margin_requirement    *)
(* <= cash before the trade.                                               *)
(***************************************************************************)
C4_FillWithinCash ==
    LET notional == RMul(R(ret), call.price)
        margin   == RMul(notional, before.margin_requirement)
    IN  /\ Called("buy") /\ ret > 0 => RLe(notional, before.cash)
        /\ Called("short") /\ ret > 0 =>
              RLe(RAdd(notional, margin), before.cash)

(***************************************************************************)
(* C4 amended: a buy that fills f > 0 at p has f*p <= cash before the      *)
(* trade, and a short that fills f > 0 has its margin                      *)
(* f*p*margin_requirement <= cash before the trade.                        *)
(***************************************************************************)
C4_FillWithinCashAmended ==
    LET notional == RMul(R(ret), call.price)
        margin   == RMul(notional, before.margin_requirement)
    IN  /\ Called("buy") /\ ret > 0 => RLe(notional, before.cash)
        /\ Called("short") /\ ret > 0 => RLe(margin, before.cash)

\* A short has filled whose margin takes all the cash there was.
C4_Witness ==
    /\ Called("short")
    /\ ret > 0
    /\ RLt(Zero, before.margin_requirement)
    /\ RMul(RMul(R(ret), call.price), before.margin_requirement) = before.cash

(***************************************************************************)
(* C5: a sell never fills more than the long shares held before it, a      *)
(* cover never more than the short shares held before it, and long and     *)
(* short share counts are non-negative integers in every reachable state.  *)
(***************************************************************************)
C5_FillWithinPosition ==
    /\ Called("sell") => ret <= Pos(before).long
    /\ Called("cover") => ret <= Pos(before).short
    /\ \A t \in Tickers :
          /\ portfolio.positions[t].long \in Nat
          /\ portfolio.positions[t].short \in Nat

\* A sell asked for more than the open long position and was cut to it.
C5_Witness ==
    /\ Called("sell")
    /\ Pos(before).long > 0
    /\ Requested > Pos(before).long
    /\ ret = Pos(before).long

(***************************************************************************)
(* C6: execute_trade with action hold, or with any action and a requested  *)
(* quantity <= 0, returns 0 and leaves the whole portfolio unchanged.      *)
(***************************************************************************)
C6_HoldOrNoQuantity ==
    Observed /\ (call.action = "hold" \/ RLe(call.quantity, Zero)) =>
        /\ ret = 0
        /\ portfolio = before

\* A sell of a negative quantity was asked of an open long position.
C6_Witness ==
    /\ call.action = "sell"
    /\ RLt(call.quantity, Zero)
    /\ Pos(before).long > 0

(***************************************************************************)
(* C7: execute_trade never raises; it returns an integer f with            *)
(* 0 <= f <= the requested quantity in whole shares (0 for a request       *)
(* below one share or not positive); an unrecognised action returns 0 and  *)
(* changes nothing.                                                        *)
(***************************************************************************)
C7_NeverRaises ==
    /\ ~raised
    /\ Observed =>
          /\ ret \in Nat
          /\ ret <= (IF Requested > 0 THEN Requested ELSE 0)
          /\ call.action \notin {"buy", "sell", "short", "cover", "hold"} =>
                /\ ret = 0
                /\ portfolio = before

\* A short for which the cash covers the margin of only part of the request.
C7_Witness ==
    /\ Called("short")
    /\ 0 < ret
    /\ ret < Requested

(***************************************************************************)
(* C8: a buy of q whole shares at p fills q when q*p <= cash, otherwise    *)
(* the largest whole quantity whose cost does not exceed cash (0 if        *)
(* none); a positive fill f adds f to the long shares, takes exactly f*p   *)
(* from cash and changes nothing else but that instrument's                *)
(* long_cost_basis.                                                        *)
(***************************************************************************)
C8_BuyFill ==
    Called("buy") =>
        /\ ret \in 0..Requested
        /\ ret > 0 => RLe(RMul(R(ret), call.price), before.cash)
        /\ ret < Requested => RLt(before.cash, RMul(R(ret + 1), call.price))
        /\ ret > 0 =>
              /\ Pos(portfolio).long = Pos(before).long + ret
              /\ portfolio.cash = RSub(before.cash, RMul(R(ret), call.price))
              /\ LongFrame(portfolio) = LongFrame(before)

\* A buy that the cash could pay only in part.
C8_Witness ==
    /\ Called("buy")
    /\ 0 < ret
    /\ ret < Requested

(***************************************************************************)
(* C9: the cost basis is the volume-weighted average of the fills that     *)
(* opened the position: while no sell has reduced a long position opened   *)
(* from nothing, long_cost_basis * (q1 + q2 + ...) = q1*p1 + q2*p2 + ...   *)
(* over its buys, full or partial; the same for short_cost_basis over the  *)
(* shorts with no cover in between.                                        *)
(***************************************************************************)
C9_WeightedAverageBasis ==
    \A t \in Tickers :
        LET position == portfolio.positions[t]
        IN  /\ long_lot[t].whole =>
                  /\ position.long = LotShares(long_lot[t].fills)
                  /\ RMul(position.long_cost_basis, R(position.long)) =
                        LotCost(long_lot[t].fills)
            /\ short_lot[t].whole =>
                  /\ position.short = LotShares(short_lot[t].fills)
                  /\ RMul(position.short_cost_basis, R(position.short)) =
                        LotCost(short_lot[t].fills)

\* Two buys at different prices opened the position, the second filled
\* in part.
C9_Witness ==
    /\ Called("buy")
    /\ 0 < ret
    /\ ret < Requested
    /\ long_lot[call.ticker].whole
    /\ Len(long_lot[call.ticker].fills) = 2
    /\ long_lot[call.ticker].fills[1][2] # long_lot[call.ticker].fills[2][2]

(***************************************************************************)
(* C10: a sell of q shares at p fills f = min(q, long shares); a positive  *)
(* fill adds (p - long_cost_basis) * f, at the basis before the trade, to  *)
(* realized_gains[instrument].long, takes f from the long shares, adds     *)
(* f*p to cash, and leaves the cost basis as it was while shares remain    *)
(* and at 0 when none remain.                                              *)
(***************************************************************************)
C10_SellFill ==
    Called("sell") =>
        /\ ret = (IF Requested <= Pos(before).long
                  THEN Requested ELSE Pos(before).long)
        /\ ret > 0 =>
              /\ portfolio.realized_gains[call.ticker].long =
                    RAdd(before.realized_gains[call.ticker].long,
                         RMul(RSub(call.price, Pos(before).long_cost_basis),
                              R(ret)))
              /\ Pos(portfolio).long = Pos(before).long - ret
              /\ portfolio.cash = RAdd(before.cash, RMul(R(ret), call.price))
              /\ Pos(portfolio).long_cost_basis =
                    (IF Pos(portfolio).long = 0 THEN Zero
                     ELSE Pos(before).long_cost_basis)

\* Part of a long position was sold above its cost basis.
C10_Witness ==
    /\ Called("sell")
    /\ ret > 0
    /\ Pos(portfolio).long > 0
    /\ RLt(Pos(before).long_cost_basis, call.price)

(***************************************************************************)
(* C11: a short of q shares at p with margin requirement m fills q when    *)
(* q*p*m <= cash, otherwise the largest whole quantity whose margin does   *)
(* not exceed cash (0 if none); a positive fill f adds f to the short      *)
(* shares, adds f*p*m to the instrument's short_margin_used and to the     *)
(* portfolio's margin_used, and changes cash by exactly f*p - f*p*m.       *)
(***************************************************************************)
MarginOf(n) == RMul(RMul(R(n), call.price), before.margin_requirement)

C11_ShortFill ==
    Called("short") =>
        /\ ret \in 0..Requested
        /\ ret > 0 => RLe(MarginOf(ret), before.cash)
        /\ ret < Requested => RLt(before.cash, MarginOf(ret + 1))
        /\ ret > 0 =>
              /\ Pos(portfolio).short = Pos(before).short + ret
              /\ Pos(portfolio).short_margin_used =
                    RAdd(Pos(before).short_margin_used, MarginOf(ret))
              /\ portfolio.margin_used =
                    RAdd(before.margin_used, MarginOf(ret))
              /\ portfolio.cash =
                    RSub(RAdd(before.cash, RMul(R(ret), call.price)),
                         MarginOf(ret))

\* A short at margin requirement 1/2 whose margin the cash paid only in part.
C11_Witness ==
    /\ Called("short")
    /\ before.margin_requirement = Half
    /\ 0 < ret
    /\ ret < Requested
    /\ RLt(before.margin_used, portfolio.margin_used)

(***************************************************************************)
(* C12: with margin_requirement 0 every short is blocked: execute_trade    *)
(* with action short returns 0 and leaves the portfolio unchanged.  The    *)
(* code fills such a short in full whenever cash >= 0 (the margin, 0, is   *)
(* within the cash), so this is violated.                                  *)
(***************************************************************************)
C12_ZeroMarginBlocksShort ==
    Called("short") /\ before.margin_requirement = Zero =>
        /\ ret = 0
        /\ portfolio = before

(***************************************************************************)
(* C13: a cover of q shares at p fills f = min(q, short shares); a         *)
(* positive fill adds (short_cost_basis - p) * f to                        *)
(* realized_gains[instrument].short, releases                              *)
(* (f / short shares before) * short_margin_used before, takes that from   *)
(* short_margin_used and from the portfolio's margin_used, takes f from    *)
(* the short shares and changes cash by exactly released - f*p.            *)
(***************************************************************************)
Released ==
    RDiv(RMul(R(ret), Pos(before).short_margin_used), R(Pos(before).short))

C13_CoverFill ==
    Called("cover") =>
        /\ ret = (IF Requested <= Pos(before).short
                  THEN Requested ELSE Pos(before).short)
        /\ ret > 0 =>
              /\ portfolio.realized_gains[call.ticker].short =
                    RAdd(before.realized_gains[call.ticker].short,
                         RMul(RSub(Pos(before).short_cost_basis, call.price),
                              R(ret)))
              /\ Pos(portfolio).short_margin_used =
                    RSub(Pos(before).short_margin_used, Released)
              /\ portfolio.margin_used = RSub(before.margin_used, Released)
              /\ Pos(portfolio).short = Pos(before).short - ret
              /\ portfolio.cash =
                    RSub(RAdd(before.cash, Released), RMul(R(ret), call.price))

\* Part of a short position with margin pledged was covered below its basis.
C13_Witness ==
    /\ Called("cover")
    /\ ret > 0
    /\ Pos(portfolio).short > 0
    /\ RLt(Zero, Pos(portfolio).short_margin_used)
    /\ RLt(call.price, Pos(before).short_cost_basis)

(***************************************************************************)
(* C14 as claimed: buying n >= 1 shares at p and then at once selling n    *)
(* at p leaves cash and realized_gains as they were before the buy and     *)
(* leaves that instrument's long_cost_basis at 0.                          *)
(***************************************************************************)
C14_RoundTrip ==
    Closed("buy") /\ Requested >= 1 =>
        /\ portfolio.cash = before.cash
        /\ portfolio.realized_gains = before.realized_gains
        /\ Pos(portfolio).long_cost_basis = Zero

(***************************************************************************)
(* C14 amended: when the instrument has no long shares before the buy,     *)
(* buying n >= 1 shares at p and then at once selling n at p leaves cash   *)
(* and realized_gains as they were before the buy and leaves that          *)
(* instrument's long_cost_basis at 0.                                      *)
(***************************************************************************)
C14_RoundTripFromFlat ==
    Closed("buy") /\ Requested >= 1 /\ Pos(before).long = 0 =>
        /\ portfolio.cash = before.cash
        /\ portfolio.realized_gains = before.realized_gains
        /\ Pos(portfolio).long_cost_basis = Zero

\* A buy from no long position filled and the sell sold what it bought.
C14_Witness ==
    /\ Closed("buy")
    /\ Pos(before).long = 0
    /\ ret > 0
    /\ closing.ret = ret

(***************************************************************************)
(* C15 as claimed: opening a short of n >= 1 shares at p and then          *)
(* covering n at p returns the portfolio's margin_used and cash to their   *)
(* values before the short and leaves the instrument's short_margin_used   *)
(* at 0.                                                                   *)
(***************************************************************************)
C15_ShortRoundTrip ==
    Closed("short") /\ Requested >= 1 =>
        /\ portfolio.margin_used = before.margin_used
        /\ Pos(portfolio).short_margin_used = Zero
        /\ portfolio.cash = before.cash

(***************************************************************************)
(* C15 amended: when the instrument has no short shares before the short,  *)
(* opening a short of n >= 1 shares at p and then covering n at p returns  *)
(* the portfolio's margin_used and cash to their values before the short   *)
(* and leaves the instrument's short_margin_used at 0.                     *)
(***************************************************************************)
C15_ShortRoundTripFromFlat ==
    Closed("short") /\ Requested >= 1 /\ Pos(before).short = 0 =>
        /\ portfolio.margin_used = before.margin_used
        /\ Pos(portfolio).short_margin_used = Zero
        /\ portfolio.cash = before.cash

\* A short from no short position pledged margin beside the margin of
\* another instrument, and the cover closed it.
C15_Witness ==
    /\ Closed("short")
    /\ Pos(before).short = 0
    /\ RLt(Zero, before.margin_used)
    /\ ret > 0
    /\ closing.ret = ret
    /\ RLt(Zero, before.margin_requirement)

\* cash + sum of long * price - sum of short * price over the tickers of
\* the set T, at the prices the valuation was given.
Equity(pf, T) ==
    RSub(RAdd(pf.cash,
              RSum([t \in T |-> RMul(R(pf.positions[t].long), valuation.prices[t])], T)),
         RSum([t \in T |-> RMul(R(pf.positions[t].short), valuation.prices[t])], T))

(***************************************************************************)
(* C16: given a price for every tracked instrument,                        *)
(* calculate_portfolio_value returns cash plus the sum of long * price     *)
(* minus the sum of short * price over all tracked instruments, and        *)
(* leaves the portfolio unchanged.                                         *)
(***************************************************************************)
C16_ValuationIdentity ==
    valuation.made /\ DOMAIN valuation.prices = Tickers =>
        /\ ~valuation.raised
        /\ valuation.value = Equity(portfolio, Tickers)
        /\ portfolio = before

\* A portfolio with cash, a long and a short position was valued.
C16_Witness ==
    /\ valuation.made
    /\ DOMAIN valuation.prices = Tickers
    /\ RLt(Zero, portfolio.cash)
    /\ \E t \in Tickers : portfolio.positions[t].long > 0
    /\ \E t \in Tickers : portfolio.positions[t].short > 0

(***************************************************************************)
(* C17: when the only instruments without a price hold neither long nor    *)
(* short shares, calculate_portfolio_value does not fail and returns the   *)
(* total over the instruments that have a price.                           *)
(***************************************************************************)
C17_MissingPriceOfFlatTolerated ==
    /\ valuation.made
    /\ \A t \in Tickers \ DOMAIN valuation.prices :
           portfolio.positions[t].long = 0 /\ portfolio.positions[t].short = 0
    => /\ ~valuation.raised
       /\ valuation.value = Equity(portfolio, DOMAIN valuation.prices)

\* The last record of the valuation series.
last_record == portfolio_values[Len(portfolio_values)]

\* The day added one record, for its date, with the equity of the record
\* before it.
CarriedForward ==
    /\ day.records >= 1
    /\ Len(portfolio_values) = day.records + 1
    /\ last_record.Date = current_date
    /\ last_record.Portfolio_Value = portfolio_values[day.records].Portfolio_Value

(***************************************************************************)
(* C18: on a day where the price of some instrument is unavailable the     *)
(* driver calls neither the agent nor execute_trade, leaves the portfolio  *)
(* unchanged, appends a record for that date carrying the previous         *)
(* record's equity, and goes on with the next date.                        *)
(***************************************************************************)
C18_MissingDataDaySkipped ==
    day.ended = "skipped" =>
        /\ ~day.agent_called
        /\ ~day.traded
        /\ portfolio = day.portfolio
        /\ pc \in {"loop", "done"}
        /\ CarriedForward

(***************************************************************************)
(* C19: when run_backtest has finished, the valuation series has as many   *)
(* records as the range has business days, exactly one for each of them.   *)
(***************************************************************************)
C19_OneRecordPerTradingDay ==
    pc = "done" =>
        /\ Len(portfolio_values) = Len(dates)
        /\ \A d \in 1..Len(dates) :
              Cardinality({k \in 1..Len(portfolio_values) :
                              portfolio_values[k].Date = dates[d]}) = 1

(***************************************************************************)
(* C20: when the agent fails on a day the run is not aborted: the day has  *)
(* no trades, a record for its date carries the previous equity forward,   *)
(* and the loop goes on.                                                   *)
(***************************************************************************)
C20_AgentFailureSkipsDay ==
    day.ended = "failed" =>
        /\ pc \in {"loop", "done"}
        /\ portfolio = day.portfolio
        /\ CarriedForward

\* The day's decisions have a value under `key` for the ticker.
Decided(ticker, key) ==
    /\ ticker \in DOMAIN day.decisions
    /\ key \in DOMAIN day.decisions[ticker]

\* The action and the quantity decided for a ticker: hold and 0 where the
\* decisions have none.
DecidedAction(ticker) ==
    IF Decided(ticker, "action") THEN day.decisions[ticker].action ELSE "hold"

DecidedQuantity(ticker) ==
    IF Decided(ticker, "quantity") THEN day.decisions[ticker].quantity
    ELSE Zero

\* The portfolio after execute_trade with the arguments c.
after_call(pf, c) ==
    execute_trade(pf, c.ticker, c.action, c.quantity, c.price).portfolio

(***************************************************************************)
(* C21: on a day that is not skipped the driver calls execute_trade once   *)
(* per tracked instrument, in the order of the instrument list, each with  *)
(* the instrument's decision (hold 0 without one) at the day's resolved    *)
(* price, and the portfolio at the end of the day is the result of those   *)
(* executions applied one after the other in that order to the portfolio   *)
(* the day began with.                                                     *)
(***************************************************************************)
C21_SequentialExecution ==
    day.ended = "traded" =>
        /\ Len(day.calls) = Len(tickers)
        /\ \A i \in 1..Len(tickers) :
              /\ day.calls[i].ticker = tickers[i]
              /\ day.calls[i].price = current_prices[tickers[i]]
              /\ day.calls[i].action = DecidedAction(tickers[i])
              /\ day.calls[i].quantity = DecidedQuantity(tickers[i])
        /\ portfolio = after_call(after_call(day.portfolio, day.calls[1]),
                                  day.calls[2])

\* Both instruments were bought; the first buy filled and left too little
\* cash for the second, which the cash of the morning would have paid.
C21_Witness ==
    /\ day.ended = "traded"
    /\ day.calls[1].action = "buy"
    /\ day.calls[2].action = "buy"
    /\ portfolio.positions[tickers[1]].long =
          day.portfolio.positions[tickers[1]].long + 1
    /\ portfolio.positions[tickers[2]].long =
          day.portfolio.positions[tickers[2]].long
    /\ RLe(day.calls[2].price, day.portfolio.cash)

(***************************************************************************)
(* C22: at every suspend point of the daily loop (a call of the price      *)
(* provider, the call of the agent), and after a failure at one of them,   *)
(* none of the day's trades has been applied: the portfolio is the one the *)
(* previous day left.                                                      *)
(***************************************************************************)
C22_NoTradeBeforeSuspendPoints ==
    pc \in {"prices", "agent"} \/ day.ended \in {"skipped", "failed"} =>
        /\ portfolio = day.portfolio
        /\ day.calls = <<>>

\* The agent failed on a day after a day that traded, with cash for an order.
C22_Witness ==
    /\ day.ended = "failed"
    /\ current_date >= 2
    /\ \E t \in Tickers : portfolio.positions[t].long > 0
    /\ RLe(current_prices[tickers[1]], portfolio.cash)

\* The metrics a summary row prints.
Reported(metrics) ==
    <<metrics.sharpe_ratio, metrics.sortino_ratio, metrics.max_drawdown>>

(***************************************************************************)
(* C23: the summary row of a traded day reports the Sharpe ratio, the      *)
(* Sortino ratio and the maximum drawdown as they are after the day's      *)
(* refresh of the metrics, the day's own record included.                  *)
(***************************************************************************)
C23_SummaryRowIncludesToday ==
    day.ended = "traded" /\ pc # "aborted" =>
        Reported(day.summary) = Reported(performance_metrics)

(***************************************************************************)
(* C24: when run_backtest has returned with a valuation series long enough *)
(* for a refresh, the metrics it returned are the ones computed from the   *)
(* complete series: computing them again from the series changes nothing. *)
(***************************************************************************)
C24_ReturnedMetricsCoverSeries ==
    pc = "done" /\ enough_records(portfolio_values) =>
        performance_metrics =
            update_performance_metrics(portfolio_values, performance_metrics)

\* None of the three metrics is set.
MetricsNull ==
    /\ performance_metrics.sharpe_ratio.kind = "none"
    /\ performance_metrics.sortino_ratio.kind = "none"
    /\ performance_metrics.max_drawdown.kind = "none"

\* All three metrics are set.
MetricsSet ==
    /\ performance_metrics.sharpe_ratio.kind # "none"
    /\ performance_metrics.sortino_ratio.kind # "none"
    /\ performance_metrics.max_drawdown.kind # "none"

\* Metrics that are set stay set through the step.
MetricsStaySet ==
    /\ performance_metrics.sharpe_ratio.kind # "none"
          => performance_metrics'.sharpe_ratio.kind # "none"
    /\ performance_metrics.sortino_ratio.kind # "none"
          => performance_metrics'.sortino_ratio.kind # "none"
    /\ performance_metrics.max_drawdown.kind # "none"
          => performance_metrics'.max_drawdown.kind # "none"

\* The daily returns of the series that are defined: the return between
\* two equities of 0 is not.
DefinedReturns == dropna(Daily_Return(Portfolio_Value(portfolio_values)))

long_exposure ==
    RSum([t \in Tickers |->
            RMul(R(portfolio.positions[t].long), current_prices[t])], Tickers)

short_exposure ==
    RSum([t \in Tickers |->
            RMul(R(portfolio.positions[t].short), current_prices[t])], Tickers)

(***************************************************************************)
(* C26: after the refresh of the metrics on a traded day, gross_exposure   *)
(* is the day's long plus short exposure, net_exposure the long minus the  *)
(* short exposure, and long_short_ratio their quotient, or +infinity when  *)
(* there is no short exposure.                                             *)
(***************************************************************************)
C26_ExposureMetricsRefreshed ==
    day.ended = "traded" /\ pc # "aborted" /\ enough_records(portfolio_values) =>
        /\ performance_metrics.gross_exposure =
              Num(RAdd(long_exposure, short_exposure))
        /\ performance_metrics.net_exposure =
              Num(RSub(long_exposure, short_exposure))
        /\ performance_metrics.long_short_ratio =
              IF short_exposure = Zero THEN Inf
              ELSE Num(RDiv(long_exposure, short_exposure))

\* The equities of the valuation series, and whether all are positive.
Equity_Curve == Portfolio_Value(portfolio_values)

PositiveEquities ==
    \A t \in 1..Len(Equity_Curve) : RLt(Zero, Equity_Curve[t])

\* The greatest equity up to row t, and the drawdown of row t against it.
RunningMax(t) ==
    CHOOSE m \in {Equity_Curve[i] : i \in 1..t} :
        \A i \in 1..t : RLe(Equity_Curve[i], m)

DrawdownAt(t) ==
    RDiv(RSub(Equity_Curve[t], RunningMax(t)), RunningMax(t))

\* The least drawdown of the series.
MinDrawdown ==
    CHOOSE d \in {DrawdownAt(t) : t \in 1..Len(Equity_Curve)} :
        \A t \in 1..Len(Equity_Curve) : RLe(d, DrawdownAt(t))

NonDecreasing ==
    \A t \in 2..Len(Equity_Curve) : RLe(Equity_Curve[t - 1], Equity_Curve[t])

(***************************************************************************)
(* C27: for a valuation series of positive equities, the max_drawdown the  *)
(* metrics calculator computed is 100 times the least of                   *)
(* (equity[t] - runningMax[t]) / runningMax[t], is at most 0, and is 0     *)
(* when the equities never decrease; max_drawdown_date is the date of the  *)
(* first record with that least drawdown, and is null exactly when the     *)
(* least drawdown is not below 0.                                          *)
(***************************************************************************)
C27_MaxDrawdown ==
    performance_metrics.max_drawdown.kind # "none" /\ PositiveEquities =>
        /\ performance_metrics.max_drawdown = Num(RMul(MinDrawdown, R(100)))
        /\ RLe(performance_metrics.max_drawdown.value, Zero)
        /\ NonDecreasing => performance_metrics.max_drawdown.value = Zero
        /\ performance_metrics.max_drawdown_date.kind = "none"
              <=> ~RLt(MinDrawdown, Zero)
        /\ performance_metrics.max_drawdown_date.kind = "date" =>
              \E t \in 1..Len(portfolio_values) :
                  /\ portfolio_values[t].Date =
                        performance_metrics.max_drawdown_date.value
                  /\ DrawdownAt(t) = MinDrawdown
                  /\ \A u \in 1..(t - 1) : DrawdownAt(u) # MinDrawdown

\* A series that rose, fell below its peak and did not recover it: the
\* drawdown is negative and dated after the first record.
C27_Witness ==
    /\ PositiveEquities
    /\ Len(portfolio_values) = MaxRecords
    /\ performance_metrics.max_drawdown.kind = "num"
    /\ RLt(performance_metrics.max_drawdown.value, Zero)
    /\ performance_metrics.max_drawdown_date.kind = "date"
    /\ performance_metrics.max_drawdown_date.value > 2

\* The negative excess returns among the defined returns.
DownsideReturns == SelectSeq(DefinedReturns, negative_excess)

(***************************************************************************)
(* C28 as claimed: when the metrics calculator has written the ratios,     *)
(* sharpe_ratio is 0 if the standard deviation of the excess returns is    *)
(* below 1e-12 or undefined, and sortino_ratio is 0 if the standard        *)
(* deviation of the negative excess returns is below 1e-12 or undefined.   *)
(***************************************************************************)
C28_ZeroWhenNoDeviation ==
    performance_metrics.sharpe_ratio.kind # "none" =>
        /\ ~std_above_guard(DefinedReturns)
              => performance_metrics.sharpe_ratio.kind = "zero"
        /\ ~std_above_guard(DownsideReturns)
              => performance_metrics.sortino_ratio.kind = "zero"

(***************************************************************************)
(* C28 amended: when the metrics calculator has written the ratios,        *)
(* sharpe_ratio is 0 if the standard deviation of the excess returns is    *)
(* below 1e-12 or undefined; if the standard deviation of the negative     *)
(* excess returns is below 1e-12 or undefined, sortino_ratio is +infinity  *)
(* when the mean excess return is positive and 0 otherwise.  Neither is    *)
(* NaN.                                                                    *)
(***************************************************************************)
C28_ZeroWhenNoDeviationAmended ==
    performance_metrics.sharpe_ratio.kind # "none" =>
        /\ ~std_above_guard(DefinedReturns)
              => performance_metrics.sharpe_ratio.kind = "zero"
        /\ ~std_above_guard(DownsideReturns)
              => performance_metrics.sortino_ratio.kind =
                    IF mean_excess_positive(DefinedReturns)
                    THEN "inf" ELSE "zero"
        /\ performance_metrics.sharpe_ratio.kind \in {"zero", "ratio"}
        /\ performance_metrics.sortino_ratio.kind \in {"zero", "inf", "ratio"}

\* Two equal losses and then a larger gain: the downside deviation is 0,
\* the mean excess return is positive, and the Sortino ratio is +infinity.
C28_Witness ==
    /\ PositiveEquities
    /\ Len(DownsideReturns) = 2
    /\ ~std_above_guard(DownsideReturns)
    /\ std_above_guard(DefinedReturns)
    /\ performance_metrics.sharpe_ratio.kind = "ratio"
    /\ performance_metrics.sortino_ratio.kind = "inf"

\* The return series with the first record dropped, as wins (1) and
\* non-wins (0): row t is the return from record t to record t + 1.
ReturnsWithoutFirst ==
    [t \in 1..(Len(Equity_Curve) - 1) |->
        IF RLt(Equity_Curve[t], Equity_Curve[t + 1]) THEN 1 ELSE 0]

(***************************************************************************)
(* C29: for a series of positive equities, the streaks analyze_performance *)
(* computes are the longest run of strictly positive returns and the       *)
(* longest run of returns <= 0 in the return series without the first      *)
(* record, which has no return.                                            *)
(***************************************************************************)
C29_StreaksWithoutFirstRecord ==
    analysis.done /\ ~analysis.raised /\ PositiveEquities =>
        /\ analysis.max_consecutive_wins =
              max_consecutive(ReturnsWithoutFirst, 1)
        /\ analysis.max_consecutive_losses =
              max_consecutive(ReturnsWithoutFirst, 0)

(***************************************************************************)
(* C30: after any sequence of set_prices calls, no cached list holds two   *)
(* records with the same value of the key field "time", also when one      *)
(* call supplied several records with the same time.                       *)
(***************************************************************************)
C30_NoDuplicateKeys ==
    \A ticker \in DOMAIN prices_cache :
        \A i, j \in 1..Len(prices_cache[ticker]) :
            prices_cache[ticker][i].time = prices_cache[ticker][j].time
                => i = j

\* What the getter of a cache returns for a key, in this state.
Get(cache, key) ==
    IF cache = "prices" THEN cache_get(prices_cache, key)
    ELSE cache_get(financial_metrics_cache, key)

\* The same in the state after the step.
GetNext(cache, key) ==
    IF cache = "prices" THEN cache_get(prices_cache', key)
    ELSE cache_get(financial_metrics_cache', key)

CacheEntries ==
    ({"prices"} \X CacheKeys) \cup ({"financial_metrics"} \X MetricsKeys)

\* The records of new_data whose key is not among the records cached
\* before the call, in the order of new_data.
FirstSeen(cached, new_data, key_field) ==
    LET unseen(item) ==
            \A i \in 1..Len(cached) : cached[i][key_field] # item[key_field]
    IN  SelectSeq(new_data, unseen)

(***************************************************************************)
(* C31: a key that was never set reads as absent; after a set call the     *)
(* entry of the key holds the records it held before, at their positions,  *)
(* followed by the records of the call whose key was not cached, in the    *)
(* order of the call; the entry of every other key and of the other cache  *)
(* is what it was.                                                         *)
(***************************************************************************)
C31_AppendOnly ==
    /\ \A e \in CacheEntries : Get(e[1], e[2]) = Absent
    /\ [][/\ GetNext(set_call'.cache, set_call'.key) =
                Cached(Get(set_call'.cache, set_call'.key).records
                       \o FirstSeen(Get(set_call'.cache, set_call'.key).records,
                                    set_call'.data, set_call'.key_field))
          /\ \A e \in CacheEntries :
                e # <<set_call'.cache, set_call'.key>>
                    => GetNext(e[1], e[2]) = Get(e[1], e[2])]_vars

\* The second set call for a key that held a record: of its two records
\* one had a cached time and one a new time.
C31_Witness ==
    /\ set_calls = 2
    /\ set_call.cache = "prices"
    /\ set_call.before.present
    /\ Len(set_call.before.records) = 1
    /\ Len(set_call.data) = 2
    /\ Len(prices_cache[set_call.key]) = 2
    /\ prices_cache[set_call.key][1] = set_call.before.records[1]
    /\ prices_cache[set_call.key][2] = set_call.data[2]
    /\ set_call.data[1].time = set_call.before.records[1].time
    /\ set_call.data[1] # set_call.before.records[1]
    /\ DOMAIN prices_cache = {set_call.key}
    /\ DOMAIN financial_metrics_cache = {}

(***************************************************************************)
(* C32: once run_backtest has seeded the valuation series of a range with  *)
(* at least one trading day, the first record holds the starting capital   *)
(* and is dated before the first trading date, and the dates of the series *)
(* are strictly increasing.                                                *)
(***************************************************************************)
C32_SeedBeforeFirstDay ==
    pc # "idle" /\ dates # <<>> =>
        /\ portfolio_values # <<>>
        /\ portfolio_values[1].Portfolio_Value = initial_capital
        /\ portfolio_values[1].Date < dates[1]
        /\ \A i, j \in 1..Len(portfolio_values) :
              i < j => portfolio_values[i].Date < portfolio_values[j].Date

(***************************************************************************)
(* C33: an execute_trade call on instrument i leaves the position and the  *)
(* realized gains of every other instrument as they were; buy, short and   *)
(* hold change no realized gain at all, a sell leaves realized_gains[i]    *)
(* .short and a cover leaves realized_gains[i].long as it was.             *)
(***************************************************************************)
C33_RealizedGainsFrame ==
    Observed /\ ~closing.made =>
        /\ \A t \in Tickers \ {call.ticker} :
              /\ portfolio.positions[t] = before.positions[t]
              /\ portfolio.realized_gains[t] = before.realized_gains[t]
        /\ call.action \notin {"sell", "cover"}
              => portfolio.realized_gains = before.realized_gains
        /\ call.action = "sell"
              => portfolio.realized_gains[call.ticker].short =
                     before.realized_gains[call.ticker].short
        /\ call.action = "cover"
              => portfolio.realized_gains[call.ticker].long =
                     before.realized_gains[call.ticker].long

\* A sale at a price other than the cost basis, while the other
\* instrument holds a position: its long gain changed, nothing else did.
C33_Witness ==
    /\ Called("sell")
    /\ ret > 0
    /\ portfolio.realized_gains[call.ticker].long #
           before.realized_gains[call.ticker].long
    /\ \E t \in Tickers \ {call.ticker} :
           portfolio.positions[t].long + portfolio.positions[t].short > 0

\* Price maps that value the traded instrument at the price of the call.
CallPriceMaps == {pm \in [Tickers -> Prices] : pm[call.ticker] = call.price}

\* cash + margin_used + sum(long * price) - sum(short * price)
Collateralized(pf, pm) ==
    RAdd(RAdd(pf.cash, pf.margin_used),
         RSub(RSum([t \in Tickers |-> RMul(R(pf.positions[t].long), pm[t])],
                   Tickers),
              RSum([t \in Tickers |-> RMul(R(pf.positions[t].short), pm[t])],
                   Tickers)))

(***************************************************************************)
(* C34: an execute_trade call at price p leaves cash + margin_used +       *)
(* sum(long * price) - sum(short * price) as it was, the traded instrument *)
(* valued at p and the others at any fixed prices; so the value            *)
(* calculate_portfolio_value gives at those prices is unchanged by a buy,  *)
(* a sell and a hold, falls in a short by the margin the short pledged and *)
(* rises in a cover by the margin the cover released.                      *)
(***************************************************************************)
C34_CollateralizedValueUnchanged ==
    Observed /\ ~closing.made =>
        \A pm \in CallPriceMaps :
            /\ Collateralized(portfolio, pm) = Collateralized(before, pm)
            /\ RAdd(calculate_portfolio_value(portfolio, pm).value,
                    RSub(portfolio.margin_used, before.margin_used))
                   = calculate_portfolio_value(before, pm).value
            /\ call.action \notin {"short", "cover"}
                  => portfolio.margin_used = before.margin_used
            /\ call.action = "short"
                  => RLe(before.margin_used, portfolio.margin_used)
            /\ call.action = "cover"
                  => RLe(portfolio.margin_used, before.margin_used)

\* A short that was filled in part and pledged margin.
C34_Witness ==
    /\ Called("short")
    /\ ret > 0
    /\ ret < Requested
    /\ RLt(before.margin_used, portfolio.margin_used)
    /\ \E pm \in CallPriceMaps :
           RLt(calculate_portfolio_value(portfolio, pm).value,
               calculate_portfolio_value(before, pm).value)

\* The portfolio the i-th execute_trade call of the day found.
RECURSIVE PortfolioAtCall(_)
PortfolioAtCall(i) ==
    IF i = 1 THEN day.portfolio
    ELSE after_call(PortfolioAtCall(i - 1), day.calls[i - 1])

\* The decisions lack the entry of the ticker, or its action or quantity.
Undecided(ticker) ==
    ~Decided(ticker, "action") \/ ~Decided(ticker, "quantity")

(***************************************************************************)
(* C35: on a traded day, for an instrument whose decision is missing or    *)
(* lacks the action or the quantity, the execute_trade call of the day     *)
(* returns 0 and leaves the portfolio it found as it was, so the           *)
(* instrument's position is the one the day began with; when every         *)
(* instrument is in that case the whole portfolio is.                      *)
(***************************************************************************)
C35_MissingDecisionIsHold ==
    day.ended = "traded" /\ pc # "aborted" =>
        /\ \A i \in 1..Len(tickers) :
              Undecided(tickers[i]) =>
                  /\ day.calls[i].ticker = tickers[i]
                  /\ day.calls[i].action = "hold"
                        \/ day.calls[i].quantity = Zero
                  /\ execute_trade(PortfolioAtCall(i), day.calls[i].ticker,
                                   day.calls[i].action, day.calls[i].quantity,
                                   day.calls[i].price)
                         = Done(PortfolioAtCall(i), 0)
                  /\ portfolio.positions[tickers[i]] =
                         day.portfolio.positions[tickers[i]]
        /\ (\A t \in Tickers : Undecided(t)) => portfolio = day.portfolio

\* A day on which the first instrument was sold and the second, held long,
\* had no entry.
C35_Witness ==
    /\ day.ended = "traded"
    /\ pc # "aborted"
    /\ tickers[2] \notin DOMAIN day.decisions
    /\ day.calls[1].action = "sell"
    /\ portfolio.positions[tickers[1]].long <
           day.portfolio.positions[tickers[1]].long
    /\ portfolio.positions[tickers[2]].long > 0

\* An invocation of the current call_llm call that gave no usable result.
FailedInvocation(i) == llm.invocations[i] # "result"

AllInvocationsFailed ==
    \A i \in 1..Len(llm.invocations) : FailedInvocation(i)

\* call_llm has returned (and the day may have executed what it returned).
LLMReturned == llm.calls > 0 /\ llm.pc # "invoking"

\* C36: call_llm invokes the model at most max_retries times, no invocation
\* follows a successful one, no exception of an invocation leaves the call,
\* a call with a default_factory whose max_retries invocations all failed
\* returns default_factory(), which for the portfolio manager is hold with
\* quantity 0 for every ticker, and a day executed on the outcome of a
\* failing call leaves the portfolio as it was.
C36_RetriesThenDefault ==
    /\ Len(llm.invocations) <= llm.max_retries
    /\ \A i \in 1..Len(llm.invocations) - 1 : FailedInvocation(i)
    /\ ~AllInvocationsFailed => (llm.pc # "invoking" /\ llm.returned = "result")
    /\ ~llm.raised
    /\ (/\ LLMReturned
        /\ llm.available
        /\ llm.default_factory
        /\ Len(llm.invocations) = llm.max_retries
        /\ AllInvocationsFailed)
       => /\ llm.returned = "default_factory"
          /\ \A t \in Tickers : /\ llm.decisions[t].action = "hold"
                                /\ llm.decisions[t].quantity = Zero
    /\ (llm.executed /\ llm.returned # "result")
       => (portfolio = llm.before /\ ~raised)

\* The same for the calls whose max_retries is at least 1.
RetriesThenDefaultFromOne == llm.max_retries = 0 \/ C36_RetriesThenDefault

\* A day executed on the default of a call whose three invocations failed,
\* with positions held.
RetriesThenDefaultReached ==
    /\ llm.executed
    /\ llm.default_factory
    /\ llm.available
    /\ Len(llm.invocations) = default_max_retries
    /\ AllInvocationsFailed
    /\ \E t \in Tickers : portfolio.positions[t].long > 0

\* The outcomes of the requests sent by the current _make_api_request call
\* that were responses.
Answered(i) == request.outcomes[i] \in Responses

RequestEnded == request.pc \in {"returned", "raised", "blocked"}

\* At most max_retries + 1 requests, each but the first after a 429
\* response, none after a response other than 429, and the last 429 of
\* max_retries + 1 is what the call returns.
RequestsBounded ==
    /\ Len(request.outcomes) <= request.max_retries + 1
    /\ \A i \in 1..Len(request.outcomes) - 1 :
           request.outcomes[i] = Response(429)
    /\ (/\ request.outcomes # <<>>
        /\ Answered(Len(request.outcomes))
        /\ request.outcomes[Len(request.outcomes)] # Response(429))
       => (/\ request.pc = "returned"
           /\ request.response = request.outcomes[Len(request.outcomes)])
    /\ (/\ request.outcomes # <<>>
        /\ Len(request.outcomes) = request.max_retries + 1
        /\ \A i \in 1..Len(request.outcomes) :
               request.outcomes[i] = Response(429))
       => (request.pc = "returned" /\ request.response = Response(429))

\* C37: _make_api_request sends at most max_retries + 1 requests, another
\* one only after a 429, returns the first other response at once and the
\* last 429 after max_retries + 1 of them, and never ends otherwise than by
\* returning a response.
C37_AlwaysReturnsResponse ==
    /\ RequestsBounded
    /\ request.pc \notin {"raised", "blocked"}
    /\ request.pc = "returned" => request.response \in Responses

\* C37 as amended: the bounds as claimed; every call comes to an end, and a
\* call with max_retries >= 0 all of whose requests were answered ends by
\* returning the last response.
C37_ReturnsResponseWhenAnswered ==
    /\ [](/\ RequestsBounded
          /\ (/\ RequestEnded
              /\ request.max_retries >= 0
              /\ \A i \in 1..Len(request.outcomes) : Answered(i))
             => (/\ request.pc = "returned"
                 /\ request.response =
                        request.outcomes[Len(request.outcomes)]))
    /\ ((request.pc = "sending") ~> RequestEnded)

\* The default call returns the fourth 429 after three sleeps.
C37_Witness ==
    /\ request.pc = "returned"
    /\ request.max_retries = default_request_max_retries
    /\ request.outcomes = [i \in 1..4 |-> Response(429)]
    /\ request.delays = <<60, 90, 120>>
    /\ request.response = Response(429)

\* C38: each further page request of get_insider_trades and of
\* get_company_news asks for a strictly earlier end date than the one
\* before it (so the loop cannot repeat a request and comes to an end), and
\* no record is in the accumulated result twice.
C38_PagesAdvanceWithoutRepeats ==
    /\ \A i \in 1..Len(pages.requested) - 1 :
           pages.requested[i + 1] < pages.requested[i]
    /\ \A i, j \in 1..Len(pages.all_records) :
           pages.all_records[i] = pages.all_records[j] => i = j

\* What holds instead: the end dates asked for never increase.
PagesNeverGoForward ==
    \A i \in 1..Len(pages.requested) - 1 :
        pages.requested[i + 1] <= pages.requested[i]

\* A call that paged twice and returned.
PagedTwiceReached ==
    /\ pages.pc = "returned"
    /\ Len(pages.requested) >= 2

TerminalEvents == {"complete", "error"}

StreamEnded == stream.pc \in {"closed", "failed", "disconnected"}

\* The handler is unregistered and no task is left running.
StreamCleanedUp == ~stream.handler /\ stream.task # "running"

\* C39: the first event of the stream is start, progress events follow,
\* a terminal event (complete or error) comes last or not at all, a stream
\* that ran to its end, also one whose task raised, ends with a terminal
\* event, and however the stream ended the handler is unregistered and the
\* task is not left running.
C39_OneTerminalEvent ==
    /\ stream.events # <<>> => stream.events[1] = "start"
    /\ \A i \in 2..Len(stream.events) :
           \/ stream.events[i] = "progress"
           \/ (i = Len(stream.events) /\ stream.events[i] \in TerminalEvents)
    /\ stream.pc \in {"closed", "failed"}
       => stream.events[Len(stream.events)] \in TerminalEvents
    /\ StreamEnded => StreamCleanedUp

\* The cleanup half, and the terminal event of the streams whose task did
\* not raise.
TerminalEventUnlessRaised ==
    /\ stream.events # <<>> => stream.events[1] = "start"
    /\ \A i \in 2..Len(stream.events) :
           \/ stream.events[i] = "progress"
           \/ (i = Len(stream.events) /\ stream.events[i] \in TerminalEvents)
    /\ stream.pc = "closed"
       => stream.events[Len(stream.events)] \in TerminalEvents
    /\ stream.pc = "failed" => stream.task = "raised"
    /\ StreamEnded => StreamCleanedUp

\* A client left a stream that had sent a progress event and whose task was
\* running.
DisconnectCancelledReached ==
    /\ stream.pc = "disconnected"
    /\ stream.task = "cancelled"
    /\ Len(stream.events) >= 2

====
